---- MODULE Spec2Model ----
(***************************************************************************)
(* Conversational-memory core of the Guka farming agent: vector memory,    *)
(* relevance engine, insight miner, session consolidator and context       *)
(* composer (app/services/memory_intelligence.py, embedding.py, memory.py).*)
(*                                                                         *)
(* Texts are sequences of one-character strings, so that Python's          *)
(* substring test `kw in text.lower()` is computed character by character. *)
(* Times are seconds.  Scores are exact rationals scaled by UNIT (1.0 =    *)
(* UNIT); the program computes them in binary floating point, whose        *)
(* rounding is not modelled.                                               *)
(***************************************************************************)
EXTENDS Integers, Sequences, FiniteSets, TLC

(* ------------------------------ text ----------------------------------- *)

\* str.lower() on one character
LowerChar(c) ==
  CASE c = "A" -> "a" [] c = "B" -> "b" [] c = "C" -> "c" [] c = "D" -> "d"
    [] c = "E" -> "e" [] c = "F" -> "f" [] c = "G" -> "g" [] c = "H" -> "h"
    [] c = "I" -> "i" [] c = "J" -> "j" [] c = "K" -> "k" [] c = "L" -> "l"
    [] c = "M" -> "m" [] c = "N" -> "n" [] c = "O" -> "o" [] c = "P" -> "p"
    [] c = "Q" -> "q" [] c = "R" -> "r" [] c = "S" -> "s" [] c = "T" -> "t"
    [] c = "U" -> "u" [] c = "V" -> "v" [] c = "W" -> "w" [] c = "X" -> "x"
    [] c = "Y" -> "y" [] c = "Z" -> "z" [] OTHER -> c

\* str.lower()
Lower(text) ==
  [i \in 1..Len(text) |-> LowerChar(text[i])]

\* Python `kw in text` on strings: kw occurs as a contiguous substring
Contains(text, kw) ==
  \E i \in 1..(Len(text) - Len(kw) + 1) :
     \A j \in 1..Len(kw) : text[i + j - 1] = kw[j]

\* any(word in text for word in words)
AnyIn(words, text) ==
  \E w \in words : Contains(text, w)

\* set of the elements of a sequence
Range(s) ==
  {s[i] : i \in 1..Len(s)}

\* " ".join(parts)
JoinSpace(parts) ==
  LET RECURSIVE J(_)
      J(k) == IF k = 0 THEN <<>>
              ELSE IF k = 1 THEN parts[1]
              ELSE J(k - 1) \o <<" ">> \o parts[k]
  IN  J(Len(parts))

\* seq[:n] for n >= 0
Prefix(s, n) ==
  SubSeq(s, 1, IF Len(s) < n THEN Len(s) ELSE n)

(* --------------------------- keyword tables ---------------------------- *)

\* iteration order of the farming_keywords dict (insertion order)
TopicOrder ==
  <<"coffee", "pests", "weather", "harvest", "planting", "soil", "market">>

farming_keywords ==
  [ coffee |->
      { <<"c","o","f","f","e","e">>,
        <<"a","r","a","b","i","c","a">>,
        <<"r","o","b","u","s","t","a">>,
        <<"s","l","2","8">>,
        <<"s","l","3","4">>,
        <<"r","u","i","r","u">>,
        <<"b","a","t","i","a","n">> },
    pests |->
      { <<"c","b","d">>,
        <<"c","l","r">>,
        <<"t","h","r","i","p","s">>,
        <<"m","i","t","e","s">>,
        <<"a","p","h","i","d","s">>,
        <<"p","e","s","t","s">>,
        <<"d","i","s","e","a","s","e">> },
    weather |->
      { <<"r","a","i","n">>,
        <<"d","r","o","u","g","h","t">>,
        <<"w","e","a","t","h","e","r">>,
        <<"s","e","a","s","o","n">>,
        <<"c","l","i","m","a","t","e">> },
    harvest |->
      { <<"h","a","r","v","e","s","t">>,
        <<"p","i","c","k","i","n","g">>,
        <<"p","r","o","c","e","s","s","i","n","g">>,
        <<"d","r","y","i","n","g">>,
        <<"m","i","l","l","i","n","g">> },
    planting |->
      { <<"p","l","a","n","t","i","n","g">>,
        <<"s","e","e","d","l","i","n","g","s">>,
        <<"n","u","r","s","e","r","y">>,
        <<"s","p","a","c","i","n","g">> },
    soil |->
      { <<"s","o","i","l">>,
        <<"f","e","r","t","i","l","i","z","e","r">>,
        <<"n","u","t","r","i","t","i","o","n">>,
        <<"p","h">>,
        <<"o","r","g","a","n","i","c">> },
    market |->
      { <<"p","r","i","c","e">>,
        <<"m","a","r","k","e","t">>,
        <<"s","e","l","l","i","n","g">>,
        <<"b","u","y","e","r">>,
        <<"c","o","o","p","e","r","a","t","i","v","e">> } ]

\* _classify_memory_type, first rule
question_words ==
  << <<"q","u","e","s","t","i","o","n">>,
     <<"?">>,
     <<"h","o","w">>,
     <<"w","h","a","t">>,
     <<"w","h","e","n">>,
     <<"w","h","e","r","e">>,
     <<"w","h","y">> >>

\* second rule
problem_words ==
  << <<"p","r","o","b","l","e","m">>,
     <<"i","s","s","u","e">>,
     <<"t","r","o","u","b","l","e">>,
     <<"h","e","l","p">> >>

\* third rule
feedback_words ==
  << <<"t","h","a","n","k","s">>,
     <<"t","h","a","n","k">>,
     <<"h","e","l","p","f","u","l">>,
     <<"g","r","e","a","t">> >>

\* fourth rule
market_words ==
  << <<"p","r","i","c","e">>,
     <<"s","e","l","l">>,
     <<"b","u","y">>,
     <<"m","a","r","k","e","t">> >>

\* fifth rule
activity_words ==
  << <<"p","l","a","n","t">>,
     <<"g","r","o","w">>,
     <<"h","a","r","v","e","s","t">>,
     <<"f","e","r","t","i","l","i","z","e">> >>

\* _extract_farming_context crops
crops ==
  << <<"c","o","f","f","e","e">>,
     <<"m","a","i","z","e">>,
     <<"b","e","a","n","s">>,
     <<"t","o","m","a","t","o","e","s">> >>

\* _extract_farming_context activities
activities ==
  << <<"p","l","a","n","t","i","n","g">>,
     <<"h","a","r","v","e","s","t","i","n","g">>,
     <<"p","r","u","n","i","n","g">>,
     <<"f","e","r","t","i","l","i","z","i","n","g">>,
     <<"s","p","r","a","y","i","n","g">> >>

\* _extract_farming_context problems
problems ==
  << <<"d","i","s","e","a","s","e">>,
     <<"p","e","s","t">>,
     <<"d","r","o","u","g","h","t">>,
     <<"r","a","i","n">>,
     <<"p","r","o","b","l","e","m">> >>

\* _extract_key_entities varieties
varieties ==
  << <<"s","l","2","8">>,
     <<"s","l","3","4">>,
     <<"r","u","i","r","u"," ","1","1">>,
     <<"b","a","t","i","a","n">>,
     <<"k","7">> >>

\* _extract_key_entities counties
counties ==
  << <<"n","y","e","r","i">>,
     <<"k","i","a","m","b","u">>,
     <<"m","u","r","a","n","g","a">>,
     <<"k","i","r","i","n","y","a","g","a">>,
     <<"e","m","b","u">>,
     <<"m","e","r","u">> >>

\* _extract_key_entities time words
time_words ==
  << <<"t","o","d","a","y">>,
     <<"y","e","s","t","e","r","d","a","y">>,
     <<"w","e","e","k">>,
     <<"m","o","n","t","h">>,
     <<"s","e","a","s","o","n">>,
     <<"h","a","r","v","e","s","t"," ","t","i","m","e">> >>

(* ------------------------ texts used as inputs ------------------------- *)

\* "Coffee price"
T_price ==
  <<"C","o","f","f","e","e"," ","p","r","i","c","e">>

\* "CLR price?"
T_clr ==
  <<"C","L","R"," ","p","r","i","c","e","?">>

\* "thanks"
T_thanks ==
  <<"t","h","a","n","k","s">>

\* "CLR disease"
Q_disease ==
  <<"C","L","R"," ","d","i","s","e","a","s","e">>

\* "hello"
Q_hello ==
  <<"h","e","l","l","o">>

\* "My coffee plants have orange spots": the query of the documented scenario
Q_spots ==
  <<"M","y"," ","c","o","f","f","e","e"," ","p","l","a","n","t","s"," ","h",
    "a","v","e"," ","o","r","a","n","g","e"," ","s","p","o","t","s">>

\* "brown spots on leaves, is this CLR?": message A of the scenario
T_spots ==
  <<"b","r","o","w","n"," ","s","p","o","t","s"," ","o","n"," ","l","e","a",
    "v","e","s",","," ","i","s"," ","t","h","i","s"," ","C","L","R","?">>

\* "coffee prices at exchange": message B of the scenario
T_exchange ==
  <<"c","o","f","f","e","e"," ","p","r","i","c","e","s"," ","a","t"," ","e",
    "x","c","h","a","n","g","e">>


\* a message of 501 characters, one more than the vector store keeps
T_long ==
  [i \in 1..501 |-> "x"]

\* message contents stored through the chat path
TextPool ==
  {T_price, T_clr, T_thanks}

\* queries put to the context composer
QueryPool ==
  {Q_disease, Q_hello}

\* the texts of the documented scenario
ScenarioTexts ==
  {Q_spots, T_spots, T_exchange}

(* ------------------------- units and optionals ------------------------- *)

\* 1.0 on the score scale; divisible by 100 (weights), 30, 14, 10, 1..7 and by 12 (averages)
UNIT ==
  2100 * 100 * 12

\* seconds in a day
DAY ==
  24 * 3600

\* Python None for an optional field
None ==
  <<>>

\* a present optional field
Some(x) ==
  <<x>>

\* datetime.isoformat(): the ISO string that denotes instant t
isoformat(t) ==
  Some(t)

\* datetime.fromisoformat(s.replace("Z", "+00:00")): defined on ISO strings only
fromisoformat(s) ==
  s[1]

\* sum of a sequence of integers
Sum(s) ==
  LET RECURSIVE S(_)
      S(k) == IF k = 0 THEN 0 ELSE S(k - 1) + s[k]
  IN  S(Len(s))

Min(a, b) ==
  IF a < b THEN a ELSE b

Max(a, b) ==
  IF a > b THEN a ELSE b

\* timedelta.days of a difference of d seconds (floor, also for negative d)
Days(d) ==
  d \div DAY

(* ------------------- lexical analysis of one text ---------------------- *)

\* _extract_farming_topics: topics whose keyword list hits, in dict order
extract_farming_topics(text) ==
  LET text_lower == Lower(text)
  IN  SelectSeq(TopicOrder, LAMBDA topic : AnyIn(farming_keywords[topic], text_lower))

\* every text the bounded inputs contain
AllTexts ==
  TextPool \cup QueryPool \cup ScenarioTexts

\* extract_farming_topics tabulated over the input texts
topics_table ==
  [t \in AllTexts |-> extract_farming_topics(t)]

\* extract_farming_topics, looked up for input texts and computed otherwise
farming_topics(text) ==
  IF text \in AllTexts THEN topics_table[text] ELSE extract_farming_topics(text)

\* variant: a question mark alone does not make a question
classify_memory_type_words_only(content_text) ==
  LET content == Lower(content_text)
  IN  IF AnyIn(Range(question_words) \ {<<"?">>}, content) THEN "question"
      ELSE IF AnyIn(Range(problem_words), content) THEN "problem_solving"
      ELSE IF AnyIn(Range(feedback_words), content) THEN "positive_feedback"
      ELSE IF AnyIn(Range(market_words), content) THEN "market_inquiry"
      ELSE IF AnyIn(Range(activity_words), content) THEN "farming_activity"
      ELSE "general_conversation"

\* variant: the market rule is tried before the feedback rule
classify_memory_type_market_first(content_text) ==
  LET content == Lower(content_text)
  IN  IF AnyIn(Range(question_words), content) THEN "question"
      ELSE IF AnyIn(Range(problem_words), content) THEN "problem_solving"
      ELSE IF AnyIn(Range(market_words), content) THEN "market_inquiry"
      ELSE IF AnyIn(Range(feedback_words), content) THEN "positive_feedback"
      ELSE IF AnyIn(Range(activity_words), content) THEN "farming_activity"
      ELSE "general_conversation"

\* _classify_memory_type on a content string
classify_memory_type(content_text) ==
  LET content == Lower(content_text)
  IN  IF AnyIn(Range(question_words), content) THEN "question"
      ELSE IF AnyIn(Range(problem_words), content) THEN "problem_solving"
      ELSE IF AnyIn(Range(feedback_words), content) THEN "positive_feedback"
      ELSE IF AnyIn(Range(market_words), content) THEN "market_inquiry"
      ELSE IF AnyIn(Range(activity_words), content) THEN "farming_activity"
      ELSE "general_conversation"

\* _extract_key_entities: "category:value" tags, modelled as <<category, value>> pairs
extract_key_entities(content) ==
  LET lower == Lower(content)
      Tag(cat, words) ==
        LET hits == SelectSeq(words, LAMBDA w : Contains(lower, w))
        IN  [i \in 1..Len(hits) |-> <<cat, hits[i]>>]
  IN  Tag("variety", varieties) \o Tag("location", counties) \o Tag("time", time_words)

\* _extract_farming_context
extract_farming_context(content) ==
  LET content_lower == Lower(content)
      acts == SelectSeq(activities, LAMBDA a : Contains(content_lower, a))
  IN  [ crop_mentioned    |-> SelectSeq(crops, LAMBDA c : Contains(content_lower, c)),
        activity_type     |-> IF acts = <<>> THEN None ELSE Some(acts[1]),
        season_reference  |-> None,
        problem_mentioned |-> AnyIn(Range(problems), content_lower) ]

\* the three analyses of a content, tabulated over the input texts
analysis_table ==
  [t \in AllTexts |-> [ memory_type     |-> classify_memory_type(t),
                        key_entities    |-> extract_key_entities(t),
                        farming_context |-> extract_farming_context(t) ]]

\* the analyses, looked up for input texts and computed otherwise
analysis(t) ==
  IF t \in AllTexts THEN analysis_table[t]
  ELSE [ memory_type     |-> classify_memory_type(t),
         key_entities    |-> extract_key_entities(t),
         farming_context |-> extract_farming_context(t) ]

\* _calculate_topic_alignment; a content of None makes text.lower() raise inside
\* the function's own try block, which returns the default
calculate_topic_alignment(memory_content, current_query) ==
  IF memory_content = None THEN (3 * UNIT) \div 10
  ELSE
    LET memory_topics == farming_topics(memory_content[1])
        query_topics  == farming_topics(current_query)
        common_topics == Range(memory_topics) \cap Range(query_topics)
    IN  IF memory_topics = <<>> \/ query_topics = <<>>
        THEN (3 * UNIT) \div 10
        ELSE Min(UNIT, (Cardinality(common_topics) * UNIT) \div Max(Len(query_topics), 1))

(* --------------------------- embedding gateway -------------------------- *)

\* the character cap of _clean_text
MaxEmbedChars ==
  2000

IsSpace(c) ==
  c \in {" ", "\t", "\n", "\r"}

\* " ".join(text.strip().split()): words separated by single spaces
\* (a character is kept when it is no whitespace; of a run of whitespace
\* between two words the first character is kept, as one space)
CollapseWhitespace(text) ==
  LET words == {k \in 1..Len(text) : ~IsSpace(text[k])}
      kept  == SelectSeq([k \in 1..Len(text) |-> k],
                         LAMBDA k : \/ k \in words
                                    \/ /\ k - 1 \in words
                                       /\ \E j \in words : j > k)
  IN  [n \in 1..Len(kept) |-> IF kept[n] \in words THEN text[kept[n]] ELSE " "]

\* EmbeddingService._clean_text
clean_text(text) ==
  IF text = <<>> THEN <<>>
  ELSE LET cleaned == CollapseWhitespace(text)
       IN  IF Len(cleaned) > MaxEmbedChars
           THEN Prefix(cleaned, MaxEmbedChars) \o <<".", ".", ".">>
           ELSE cleaned

\* clean_text tabulated over the input texts
clean_table ==
  [t \in AllTexts |-> clean_text(t)]

\* EmbeddingService.create_embedding with a loaded encoder: the encoder is a
\* function of the cleaned text, which stands for the vector
create_embedding(text) ==
  IF text \in AllTexts THEN clean_table[text] ELSE clean_text(text)

\* cosine similarity of the encoder's vectors for a query and a stored text,
\* in percent: a fixed table, as the encoder is a fixed function
SimPercent ==
  [q \in QueryPool \cup {Q_spots} |->
     IF q = Q_disease
     THEN [t \in TextPool |-> IF t = T_thanks THEN 35 ELSE 82]
     ELSE IF q = Q_hello
     THEN [t \in TextPool \cup {T_long} |->
             IF t = T_price THEN 60 ELSE IF t = T_clr THEN 100 ELSE 70]
     ELSE [t \in {T_spots, T_exchange} |-> IF t = T_spots THEN 82 ELSE 35]]

\* the score Qdrant gives a point for a query vector
Score(query_vector, point_vector) ==
  (SimPercent[query_vector][point_vector] * UNIT) \div 100

(* ------------------------------ sorting -------------------------------- *)

\* list.sort(key=...): the elements of s by ascending key, keys[i] being the
\* key of s[i]; equal keys keep their input order
StableSortAsc(s, keys) ==
  LET n == Len(s)
      Rank(i) == Cardinality({j \in 1..n : keys[j] < keys[i]})
                 + Cardinality({j \in 1..(i - 1) : keys[j] = keys[i]}) + 1
  IN  [p \in 1..n |-> s[CHOOSE i \in 1..n : Rank(i) = p]]

\* list.sort(key=..., reverse=True): by descending key; equal keys keep their
\* input order
StableSortDesc(s, keys) ==
  LET n == Len(s)
      Rank(i) == Cardinality({j \in 1..n : keys[j] > keys[i]})
                 + Cardinality({j \in 1..(i - 1) : keys[j] = keys[i]}) + 1
  IN  [p \in 1..n |-> s[CHOOSE i \in 1..n : Rank(i) = p]]

\* the created_at column of a list of rows
created_at_of(rows) ==
  [i \in 1..Len(rows) |-> rows[i].created_at]

\* int(x / d) for integers: truncation toward zero
IntTrunc(x, d) ==
  IF x >= 0 THEN x \div d ELSE 0 - ((0 - x) \div d)

(* ------------------------------- bounds -------------------------------- *)

\* stored messages plus directly stored vector memories
MaxStored ==
  3

\* messages stored in the one session whose history is read
MaxSessionMessages ==
  11

\* clock advances
MaxTicks ==
  2

\* time between two observations of the clock
TickStep ==
  16 * DAY

Users ==
  {"u1", "u2"}

Sessions ==
  {"s1", "s2"}

\* chat turns stored through store_conversation_message
ChatInputs ==
  { [session_id |-> "s1", user_id |-> "u1", message_type |-> "user",      content |-> T_price],
    [session_id |-> "s1", user_id |-> "u1", message_type |-> "user",      content |-> T_clr],
    [session_id |-> "s1", user_id |-> "u1", message_type |-> "assistant", content |-> T_clr],
    [session_id |-> "s2", user_id |-> "u2", message_type |-> "user",      content |-> T_price] }

\* a turn of one user under the session id of the other user's session
SharedSessionInputs ==
  { [session_id |-> "s1", user_id |-> "u2", message_type |-> "user", content |-> T_thanks] }

\* what the Generative Completion service does with one call:
\*   error        generate_response raises
\*   free_text    content is text that is not JSON
\*   null_content content is None
\*   json_full    content is a JSON object with the five requested keys
\*   json_empty   content is the JSON object {} (or the content key is absent)
LLMReplies ==
  {"error", "free_text", "null_content", "json_full", "json_empty"}

(* ------------------------------- state --------------------------------- *)

VARIABLES
  clock,            \* datetime.utcnow() / the database's now(), in seconds
  started,          \* the application's startup event has run
  embedding_model,  \* EmbeddingService.embedding_model is loaded
  profiles,         \* user_profiles table: set of user ids
  sessions,         \* conversation_sessions table
  messages,         \* conversation_messages table, in insertion order
  embedding_refs,   \* memory_embeddings table
  points,           \* Qdrant collection conversation_embeddings
  out               \* the call in progress and what it returned

vars ==
  <<clock, started, embedding_model, profiles, sessions, messages, embedding_refs, points, out>>

store ==
  <<profiles, sessions, messages, embedding_refs, points>>

Idle ==
  [op |-> "none"]

Init ==
  /\ clock = 0
  /\ started = FALSE
  /\ embedding_model = FALSE
  /\ profiles = {}
  /\ sessions = <<>>
  /\ messages = <<>>
  /\ embedding_refs = <<>>
  /\ points = <<>>
  /\ out = Idle

\* a request can be served
Ready ==
  started /\ out = Idle

(* --------------------------- startup, clock ---------------------------- *)

\* the application begins to serve requests: after api.startup_event, whose
\* vector_memory_service.initialize() loads the encoder, or without it, as
\* when the app object is driven directly (TestClient(app) in tests/test_api.py)
\* and EmbeddingService.embedding_model is still None
Startup ==
  /\ ~started
  /\ started' = TRUE
  /\ embedding_model' \in BOOLEAN
  /\ UNCHANGED <<clock, store, out>>

Tick ==
  /\ Ready
  /\ clock < MaxTicks * TickStep
  /\ clock' = clock + TickStep
  /\ UNCHANGED <<started, embedding_model, store, out>>

\* the caller has taken the result
Return ==
  /\ out # Idle
  /\ out' = Idle
  /\ UNCHANGED <<clock, started, embedding_model, store>>

(* ---------------------------- vector memory ---------------------------- *)

\* variant: the fixed keys win over the keys of metadata
point_metadata_fixed_first(message_id, user_id, session_id, content, message_type, metadata) ==
  LET base == [ message_id   |-> message_id,
                user_id      |-> user_id,
                session_id   |-> session_id,
                message_type |-> message_type,
                content      |-> Some(Prefix(content, 500)),
                timestamp    |-> IF "timestamp" \in DOMAIN metadata
                                 THEN metadata.timestamp ELSE None ]
  IN  [k \in DOMAIN base \cup DOMAIN metadata |->
         IF k \in DOMAIN base THEN base[k] ELSE metadata[k]]

\* VectorMemoryService.store_conversation_memory: the payload of the new point.
\* Keys of metadata override the fixed keys ({..., **(metadata or {})}).
point_metadata(message_id, user_id, session_id, content, message_type, metadata) ==
  LET base == [ message_id   |-> message_id,
                user_id      |-> user_id,
                session_id   |-> session_id,
                message_type |-> message_type,
                content      |-> Some(Prefix(content, 500)),
                timestamp    |-> IF "timestamp" \in DOMAIN metadata
                                 THEN metadata.timestamp ELSE None ]
  IN  [k \in DOMAIN base \cup DOMAIN metadata |->
         IF k \in DOMAIN metadata THEN metadata[k] ELSE base[k]]

(* --------------------------- message store ----------------------------- *)

SessionExists(session_id) ==
  \E i \in 1..Len(sessions) : sessions[i].session_id = session_id

\* variant: a session that is not found is not created
get_or_create_conversation_session_lookup_only(session_id, user_id) ==
  [i \in 1..Len(sessions) |->
     IF sessions[i].session_id = session_id
     THEN [sessions[i] EXCEPT !.last_activity = clock]
     ELSE sessions[i]]

\* MemoryService.get_or_create_conversation_session: the sessions table
\* afterwards; the session is looked up by session_id alone
get_or_create_conversation_session(session_id, user_id) ==
  IF SessionExists(session_id)
  THEN [i \in 1..Len(sessions) |->
          IF sessions[i].session_id = session_id
          THEN [sessions[i] EXCEPT !.last_activity = clock]
          ELSE sessions[i]]
  ELSE Append(sessions, [ session_id    |-> session_id,
                          user_id       |-> user_id,
                          started_at    |-> clock,
                          last_activity |-> clock,
                          message_count |-> 0 ])

\* where the database fails during one store_conversation_message:
\*   never    every commit succeeds
\*   session  the commit of get_or_create_conversation_session fails: rolled
\*            back and re-raised, after get_or_create_user_profile committed
\*   message  the commit of the message fails: rolled back and re-raised,
\*            after get_or_create_conversation_session committed
DbFailures ==
  {"never", "session", "message"}

\* the rows and the point that store_conversation_message writes
store_message_rows(in, db_fails) ==
  /\ LET message == [ id           |-> Len(messages) + 1,
                      session_id   |-> in.session_id,
                      user_id      |-> in.user_id,
                      message_type |-> in.message_type,
                      content      |-> in.content,
                      created_at   |-> clock ]
         point_id == Len(points) + 1
     IN  /\ profiles' = IF SessionExists(in.session_id) THEN profiles
                        ELSE profiles \cup {in.user_id}
         /\ sessions' = IF db_fails = "session" THEN sessions
                        ELSE get_or_create_conversation_session(in.session_id, in.user_id)
         /\ messages' = IF db_fails = "never" THEN Append(messages, message)
                        ELSE messages
         /\ IF embedding_model /\ db_fails = "never"
            THEN /\ points' = Append(points,
                       [ vector  |-> create_embedding(in.content),
                         payload |-> point_metadata(message.id, in.user_id, in.session_id,
                                        in.content, in.message_type,
                                        [ timestamp   |-> isoformat(message.created_at),
                                          tokens_used |-> None,
                                          model_used  |-> None ]) ])
                 /\ embedding_refs' = Append(embedding_refs,
                       [message_id |-> message.id, qdrant_point_id |-> point_id])
            ELSE UNCHANGED <<points, embedding_refs>>
  /\ UNCHANGED <<clock, started, embedding_model>>

\* MemoryService.store_conversation_message
store_conversation_message(in, db_fails) ==
  /\ Ready
  /\ store_message_rows(in, db_fails)
  /\ UNCHANGED out

\* store_conversation_message while the store has room
StoreConversationMessage(in, db_fails) ==
  /\ Len(messages) + Len(points) - Len(embedding_refs) < MaxStored
  /\ store_conversation_message(in, db_fails)

\* metadata=None, which the code reads as {}
NoMetadata ==
  [k \in {} |-> None]

\* memories stored directly through store_conversation_memory (as the test
\* script does); timestamps are relative to the clock at the time of the call
DirectInputs ==
  { [user_id |-> "u1", session_id |-> "s1", message_type |-> "user", content |-> T_price,
     has_metadata |-> FALSE, offset |-> 0, null_content |-> FALSE],
    [user_id |-> "u1", session_id |-> "s2", message_type |-> "user", content |-> T_clr,
     has_metadata |-> TRUE, offset |-> 64 * DAY, null_content |-> FALSE],
    [user_id |-> "u1", session_id |-> "s1", message_type |-> "user", content |-> T_thanks,
     has_metadata |-> TRUE, offset |-> 0 - 2 * DAY, null_content |-> TRUE] }

\* the metadata argument of a direct store
DirectMetadata(in) ==
  IF "metadata" \in DOMAIN in THEN in.metadata
  ELSE IF ~in.has_metadata THEN NoMetadata
  ELSE IF in.null_content
       THEN [timestamp |-> isoformat(clock + in.offset), content |-> None]
       ELSE [timestamp |-> isoformat(clock + in.offset)]

\* VectorMemoryService.store_conversation_memory called on its own; without a
\* loaded encoder create_embedding raises and nothing is stored
StoreConversationMemory(in) ==
  /\ Ready
  /\ Len(messages) + Len(points) - Len(embedding_refs) < MaxStored
  /\ IF embedding_model
     THEN points' = Append(points,
            [ vector  |-> create_embedding(in.content),
              payload |-> point_metadata(1000 + Len(points), in.user_id, in.session_id,
                                         in.content, in.message_type, DirectMetadata(in)) ])
     ELSE UNCHANGED points
  /\ UNCHANGED <<clock, started, embedding_model, profiles, sessions, messages,
                 embedding_refs, out>>

(* ------------------------- session consolidator ------------------------ *)

\* the SELECT of consolidate_session_memory: rows of the session and user,
\* ORDER BY created_at ASC
consolidate_rows(session_id, user_id) ==
  LET rows == SelectSeq(messages, LAMBDA m : m.session_id = session_id /\ m.user_id = user_id)
  IN  StableSortAsc(rows, created_at_of(rows))

\* variant: the topics are taken from the farmer's messages only
fallback_conversation_analysis_user_only(message_data) ==
  LET user_messages == SelectSeq(message_data, LAMBDA m : m.message_type = "user")
      all_content   == JoinSpace([i \in 1..Len(user_messages) |-> user_messages[i].content])
      topics        == farming_topics(all_content)
  IN  [ summary          |-> [ template         |-> "Conversation about",
                               topics           |-> IF topics # <<>> THEN Prefix(topics, 3)
                                                    ELSE <<"general farming">>,
                               farmer_questions |-> Len(user_messages) ],
        key_topics       |-> Prefix(topics, 5),
        action_items     |-> <<>>,
        farming_insights |-> <<>>,
        emotional_tone   |-> "professional" ]

\* _fallback_conversation_analysis
fallback_conversation_analysis(message_data) ==
  LET user_messages == SelectSeq(message_data, LAMBDA m : m.message_type = "user")
      all_content   == JoinSpace([i \in 1..Len(message_data) |-> message_data[i].content])
      topics        == farming_topics(all_content)
  IN  [ summary          |-> [ template         |-> "Conversation about",
                               topics           |-> IF topics # <<>> THEN Prefix(topics, 3)
                                                    ELSE <<"general farming">>,
                               farmer_questions |-> Len(user_messages) ],
        key_topics       |-> Prefix(topics, 5),
        action_items     |-> <<>>,
        farming_insights |-> <<>>,
        emotional_tone   |-> "professional" ]

\* json.loads of a reply that is a JSON object with the five requested keys
ParsedFull ==
  [ summary          |-> [template |-> "llm", topics |-> <<>>, farmer_questions |-> 0],
    key_topics       |-> <<"market">>,
    action_items     |-> <<"spray">>,
    farming_insights |-> <<"rust">>,
    emotional_tone   |-> "concerned" ]

\* json.loads("{}")
ParsedEmpty ==
  [k \in {} |-> None]

\* _generate_conversation_summary: the dict it returns for each LLM behaviour
generate_conversation_summary(message_data, reply) ==
  CASE reply = "json_full"  -> ParsedFull
    [] reply = "json_empty" -> ParsedEmpty
    [] OTHER                -> fallback_conversation_analysis(message_data)

SummaryKeys ==
  {"summary", "key_topics", "action_items", "farming_insights", "emotional_tone"}

NoResult ==
  [kind |-> "none"]

\* variant: a single message is taken for a conversation
not_eligible_below_one(message_data) ==
  Len(message_data) < 1

\* the precondition test of consolidate_session_memory
not_eligible(message_data) ==
  Len(message_data) < 2

\* variant: a completion call that raised is made a second time
summary_completion_calls_retrying(reply) ==
  IF reply = "error" THEN 2 ELSE 1

\* the completion calls of one _generate_conversation_summary: the single
\* await of generate_response, whatever it does
summary_completion_calls(reply) ==
  1

\* consolidate_session_memory: <<result, number of completion calls>>
consolidate_session_memory(session_id, user_id, db_ok, reply) ==
  IF ~db_ok THEN <<NoResult, 0>>
  ELSE
    LET message_data == consolidate_rows(session_id, user_id)
    IN  IF not_eligible(message_data) THEN <<NoResult, 0>>
        ELSE
          LET summary          == generate_conversation_summary(message_data, reply)
              start_time       == message_data[1].created_at
              end_time         == message_data[Len(message_data)].created_at
              duration_minutes == IntTrunc(end_time - start_time, 60)
          IN  IF ~(SummaryKeys \subseteq DOMAIN summary)
              THEN <<NoResult, summary_completion_calls(reply)>>  \* KeyError: None
              ELSE << [ kind             |-> "summary",
                        session_id       |-> session_id,
                        summary          |-> summary.summary,
                        key_topics       |-> summary.key_topics,
                        action_items     |-> summary.action_items,
                        farming_insights |-> summary.farming_insights,
                        emotional_tone   |-> summary.emotional_tone,
                        message_count    |-> Len(message_data),
                        duration_minutes |-> duration_minutes ],
                 summary_completion_calls(reply) >>

\* what the collaborators do during one consolidation: the repository read
\* fails, or it succeeds and the completion call behaves as `reply`
ConsolidateEnvs ==
  {[db_ok |-> FALSE, reply |-> "error"]} \cup {[db_ok |-> TRUE, reply |-> r] : r \in LLMReplies}

Consolidate(session_id, user_id, env) ==
  /\ Ready
  /\ LET r == consolidate_session_memory(session_id, user_id, env.db_ok, env.reply)
     IN  out' = [ op |-> "consolidate", session_id |-> session_id, user_id |-> user_id,
                  db_ok |-> env.db_ok, reply |-> env.reply,
                  result |-> r[1], llm_calls |-> r[2] ]
  /\ UNCHANGED <<clock, started, embedding_model, store>>

(* ----------------------------- insight miner --------------------------- *)

\* the trailing window of get_memory_insights
WindowDays ==
  30

\* variant: the SELECT without the message_type condition
insight_rows_all_types(user_id) ==
  LET rows == SelectSeq(messages, LAMBDA m : /\ m.user_id = user_id
                                             /\ m.created_at > clock - WindowDays * DAY)
  IN  StableSortDesc(rows, created_at_of(rows))

\* the SELECT of get_memory_insights: the user's messages of type 'user' newer
\* than the cutoff, ORDER BY created_at DESC
insight_rows(user_id) ==
  LET rows == SelectSeq(messages, LAMBDA m : /\ m.user_id = user_id
                                             /\ m.created_at > clock - WindowDays * DAY
                                             /\ m.message_type = "user")
  IN  StableSortDesc(rows, created_at_of(rows))

\* first occurrences of a sequence's elements, in order
Dedup(s) ==
  LET RECURSIVE D(_)
      D(k) == IF k = 0 THEN <<>>
              ELSE IF s[k] \in {s[j] : j \in 1..(k - 1)} THEN D(k - 1)
              ELSE Append(D(k - 1), s[k])
  IN  D(Len(s))

\* concatenation of a sequence of sequences
Flatten(ss) ==
  LET RECURSIVE F(_)
      F(k) == IF k = 0 THEN <<>> ELSE F(k - 1) \o ss[k]
  IN  F(Len(ss))

\* keys of topic_conversations in insertion order
topic_order(conversation_data) ==
  Dedup(Flatten([i \in 1..Len(conversation_data) |->
                    farming_topics(conversation_data[i].content)]))

\* topic_conversations[topic]
topic_conversations(conversation_data, topic) ==
  SelectSeq(conversation_data,
            LAMBDA m : topic \in Range(farming_topics(m.content)))

\* min / max of created_at over a non-empty list of rows
MinCreated(convs) ==
  CHOOSE t \in {convs[i].created_at : i \in 1..Len(convs)} :
     \A i \in 1..Len(convs) : t <= convs[i].created_at

MaxCreated(convs) ==
  CHOOSE t \in {convs[i].created_at : i \in 1..Len(convs)} :
     \A i \in 1..Len(convs) : t >= convs[i].created_at

\* _calculate_insight_importance
calculate_insight_importance(frequency, first_mentioned, last_mentioned) ==
  LET frequency_score   == Min(UNIT, (frequency * UNIT) \div 10)
      days_since_last   == Days(clock - last_mentioned)
      recency_score     == Max(0, UNIT - (days_since_last * UNIT) \div 30)
      time_span_days    == Days(last_mentioned - first_mentioned)
      consistency_score == Min(UNIT, (time_span_days * UNIT) \div 14)
      importance        == (frequency_score * 40 + recency_score * 35
                            + consistency_score * 25) \div 100
  IN  Min(UNIT, importance)

\* variant: one failed completion call turns every summary of the run into
\* the template
generate_topic_summary_shared_failure(topic, conversations, failing) ==
  IF failing # {}
  THEN [kind |-> "Frequently discussed", topic |-> topic, times |-> Len(conversations)]
  ELSE [kind |-> "llm", topic |-> topic, times |-> 0]

\* _generate_topic_summary: the completion's text, or the template when the
\* call raises (failing = topics whose call raises)
generate_topic_summary(topic, conversations, failing) ==
  IF topic \in failing
  THEN [kind |-> "Frequently discussed", topic |-> topic, times |-> Len(conversations)]
  ELSE [kind |-> "llm", topic |-> topic, times |-> 0]

\* the skip threshold of _analyze_conversation_patterns
MinConversations ==
  2

\* _analyze_conversation_patterns
analyze_conversation_patterns(conversation_data, failing) ==
  LET order == topic_order(conversation_data)
      kept  == SelectSeq(order,
                 LAMBDA t : ~(Len(topic_conversations(conversation_data, t)) < MinConversations))
      Insight(topic) ==
        LET conversations   == topic_conversations(conversation_data, topic)
            frequency       == Len(conversations)
            first_mentioned == MinCreated(conversations)
            last_mentioned  == MaxCreated(conversations)
        IN  [ topic                 |-> topic,
              summary               |-> generate_topic_summary(topic, conversations, failing),
              importance_score      |-> calculate_insight_importance(
                                           frequency, first_mentioned, last_mentioned),
              related_conversations |-> [i \in 1..Len(conversations) |->
                                            conversations[i].session_id],
              first_mentioned       |-> first_mentioned,
              last_mentioned        |-> last_mentioned,
              frequency             |-> frequency ]
  IN  [i \in 1..Len(kept) |-> Insight(kept[i])]

\* the two conditions of the filter of get_memory_insights
passes_frequency(insight, min_frequency) ==
  insight.frequency >= min_frequency

\* variant: the filter without the importance condition
passes_importance_always(insight) ==
  insight.importance_score >= 0

passes_importance(insight) ==
  insight.importance_score > UNIT \div 2

\* the filter of get_memory_insights
filter_insights(insights, min_frequency) ==
  SelectSeq(insights, LAMBDA insight : /\ passes_frequency(insight, min_frequency)
                                       /\ passes_importance(insight))

\* variant: the filtered insights are left in the order they were mined
rank_insights_unsorted(filtered_insights) ==
  filtered_insights

\* filtered_insights.sort(key=importance_score, reverse=True)
rank_insights(filtered_insights) ==
  StableSortDesc(filtered_insights,
                 [i \in 1..Len(filtered_insights) |-> filtered_insights[i].importance_score])

\* the completion calls of one _generate_topic_summary: the single await of
\* generate_response, whether it raises or not
topic_completion_calls(topic, failing) ==
  1

\* get_memory_insights: <<insights returned, number of completion calls>>
get_memory_insights(user_id, limit, min_frequency, db_ok, failing) ==
  IF ~db_ok THEN << <<>>, 0 >>
  ELSE
    LET conversation_data == insight_rows(user_id)
    IN  IF conversation_data = <<>> THEN << <<>>, 0 >>
        ELSE
          LET insights == analyze_conversation_patterns(conversation_data, failing)
              filtered_insights == rank_insights(filter_insights(insights, min_frequency))
          IN  << Prefix(filtered_insights, limit),
                 Sum([i \in 1..Len(insights) |->
                        topic_completion_calls(insights[i].topic, failing)]) >>

Limits ==
  {1, 2}

MinFrequencies ==
  {1, 2, 3}

\* what the collaborators do during one mining run: the repository read fails,
\* or it succeeds and the completion calls of the topics in `failing` raise
InsightEnvs ==
  {[db_ok |-> FALSE, failing |-> {}]}
    \cup {[db_ok |-> TRUE, failing |-> f] : f \in {{}, {"coffee"}, Range(TopicOrder)}}

Insights(user_id, limit, min_frequency, env) ==
  /\ Ready
  /\ LET r == get_memory_insights(user_id, limit, min_frequency, env.db_ok, env.failing)
     IN  out' = [ op |-> "insights", user_id |-> user_id, limit |-> limit,
                  min_frequency |-> min_frequency, db_ok |-> env.db_ok,
                  failing |-> env.failing, result |-> r[1], llm_calls |-> r[2] ]
  /\ UNCHANGED <<clock, started, embedding_model, store>>

(* ----------------------------- vector search ---------------------------- *)

\* variant: the search without the user filter
qdrant_search_any_user(query_vector, user_id, limit, score_threshold) ==
  LET hits == SelectSeq([i \in 1..Len(points) |->
                            <<points[i], Score(query_vector, points[i].vector)>>],
                        LAMBDA h : h[2] >= score_threshold)
  IN  Prefix(StableSortDesc(hits, [i \in 1..Len(hits) |-> hits[i][2]]), limit)

\* qdrant_client.search: the user's points scoring at least the threshold,
\* best first, at most `limit`; each hit is <<point, score>>
qdrant_search(query_vector, user_id, limit, score_threshold) ==
  LET hits == SelectSeq([i \in 1..Len(points) |->
                            <<points[i], Score(query_vector, points[i].vector)>>],
                        LAMBDA h : /\ h[1].payload.user_id = user_id
                                   /\ h[2] >= score_threshold)
  IN  Prefix(StableSortDesc(hits, [i \in 1..Len(hits) |-> hits[i][2]]), limit)

\* the payload keys that search_similar_conversations leaves out of "metadata"
FormattedKeys ==
  {"message_id", "content", "message_type", "session_id", "user_id"}

\* variant: a search whose failure of the vector index goes unnoticed
search_similar_conversations_unguarded(query_text, user_id, limit, similarity_threshold, qdrant_ok) ==
  IF ~embedding_model THEN <<>>
  ELSE
    LET search_results == qdrant_search(create_embedding(query_text), user_id, limit,
                                        similarity_threshold)
    IN  [i \in 1..Len(search_results) |->
           LET payload == search_results[i][1].payload
           IN  [ message_id       |-> payload.message_id,
                 content          |-> payload.content,
                 message_type     |-> payload.message_type,
                 session_id       |-> payload.session_id,
                 similarity_score |-> search_results[i][2],
                 timestamp        |-> payload.timestamp,
                 metadata         |-> [k \in DOMAIN payload \ FormattedKeys |->
                                         payload[k]] ]]

\* VectorMemoryService.search_similar_conversations
search_similar_conversations(query_text, user_id, limit, similarity_threshold, qdrant_ok) ==
  IF ~embedding_model \/ ~qdrant_ok THEN <<>>
  ELSE
    LET search_results == qdrant_search(create_embedding(query_text), user_id, limit,
                                        similarity_threshold)
    IN  [i \in 1..Len(search_results) |->
           LET payload == search_results[i][1].payload
           IN  [ message_id       |-> payload.message_id,
                 content          |-> payload.content,
                 message_type     |-> payload.message_type,
                 session_id       |-> payload.session_id,
                 similarity_score |-> search_results[i][2],
                 timestamp        |-> payload.timestamp,
                 metadata         |-> [k \in DOMAIN payload \ FormattedKeys |->
                                         payload[k]] ]]

(* ---------------------------- relevance engine -------------------------- *)

\* _calculate_context_continuity
calculate_context_continuity(memory, user_id, db_ok) ==
  IF memory.session_id = "" THEN (3 * UNIT) \div 10
  ELSE IF ~db_ok THEN (3 * UNIT) \div 10
  ELSE
    LET rows   == SelectSeq(messages, LAMBDA m : /\ m.session_id = memory.session_id
                                                  /\ m.user_id = user_id)
        recent == Prefix(StableSortDesc(rows, created_at_of(rows)), 5)
    IN  IF Len(recent) > 1 THEN (8 * UNIT) \div 10
        ELSE IF Len(recent) = 1 THEN (6 * UNIT) \div 10
        ELSE (3 * UNIT) \div 10

\* variant: the weighted sum without the upper clamp
total_score_unclamped(factors) ==
  (factors.semantic_similarity * 40 + factors.recency_score * 15
   + factors.frequency_score * 10 + factors.topic_alignment * 20
   + factors.context_continuity * 15) \div 100

\* the weighted sum of _calculate_enhanced_relevance, clamped from above
total_score(factors) ==
  Min(UNIT, (factors.semantic_similarity * 40 + factors.recency_score * 15
             + factors.frequency_score * 10 + factors.topic_alignment * 20
             + factors.context_continuity * 15) \div 100)

\* _calculate_enhanced_relevance
calculate_enhanced_relevance(memory, current_query, user_id, db_ok) ==
  LET factors == [ semantic_similarity |-> memory.similarity_score,
                   recency_score       |-> 0,
                   frequency_score     |-> 0,
                   topic_alignment     |-> 0,
                   context_continuity  |-> 0 ]
  IN  IF memory.timestamp = None
      THEN \* None.replace raises: the except branch
           [k \in DOMAIN factors \cup {"total_score"} |->
              IF k = "total_score" THEN factors.semantic_similarity ELSE factors[k]]
      ELSE
        LET timestamp == fromisoformat(memory.timestamp)
            days_ago  == Days(clock - timestamp)
            scored    == [factors EXCEPT
                            !.recency_score = Max(0, UNIT - (days_ago * UNIT) \div 30),
                            !.topic_alignment =
                               calculate_topic_alignment(memory.content, current_query),
                            !.context_continuity =
                               calculate_context_continuity(memory, user_id, db_ok)]
        IN  [k \in DOMAIN factors \cup {"total_score"} |->
               IF k = "total_score" THEN total_score(scored) ELSE scored[k]]

\* one iteration of the loop of _enhance_memory_relevance: the enhanced memory,
\* or the memory itself when classification raises on a content of None
enhance_one(memory, current_query, user_id, db_ok) ==
  IF memory.content = None THEN memory
  ELSE
    LET relevance_factors == calculate_enhanced_relevance(memory, current_query, user_id, db_ok)
        added == [ enhanced_relevance |-> relevance_factors.total_score,
                   relevance_factors  |-> relevance_factors,
                   memory_type        |-> analysis(memory.content[1]).memory_type,
                   key_entities       |-> analysis(memory.content[1]).key_entities,
                   farming_context    |-> analysis(memory.content[1]).farming_context ]
    IN  [k \in DOMAIN memory \cup DOMAIN added |->
           IF k \in DOMAIN added THEN added[k] ELSE memory[k]]

\* variant: an unenhanced memory sorts by its raw similarity
sort_key_similarity_fallback(x) ==
  IF "enhanced_relevance" \in DOMAIN x THEN x.enhanced_relevance ELSE x.similarity_score

\* x.get("enhanced_relevance", 0)
sort_key(x) ==
  IF "enhanced_relevance" \in DOMAIN x THEN x.enhanced_relevance ELSE 0

\* the sort keys of a list of memories
sort_keys(enhanced_memories) ==
  [i \in 1..Len(enhanced_memories) |-> sort_key(enhanced_memories[i])]

\* enhanced_memories.sort(key=..., reverse=True)
sort_by_relevance(enhanced_memories) ==
  StableSortDesc(enhanced_memories, sort_keys(enhanced_memories))

\* variant: ascending sort then reversal, which reverses ties
enhance_memory_relevance_reversed(memories, current_query, user_id, db_ok) ==
  LET asc == StableSortAsc([i \in 1..Len(memories) |->
                              enhance_one(memories[i], current_query, user_id, db_ok)],
                           sort_keys([i \in 1..Len(memories) |->
                              enhance_one(memories[i], current_query, user_id, db_ok)]))
  IN  [i \in 1..Len(asc) |-> asc[Len(asc) + 1 - i]]

\* variant: a candidate whose enhancement fails is left out of the result
enhance_memory_relevance_dropping(memories, current_query, user_id, db_ok) ==
  sort_by_relevance(SelectSeq([i \in 1..Len(memories) |->
                                 enhance_one(memories[i], current_query, user_id, db_ok)],
                              LAMBDA x : "enhanced_relevance" \in DOMAIN x))

\* _enhance_memory_relevance
enhance_memory_relevance(memories, current_query, user_id, db_ok) ==
  sort_by_relevance([i \in 1..Len(memories) |->
                       enhance_one(memories[i], current_query, user_id, db_ok)])

(* ---------------------------- context composer -------------------------- *)

\* _build_context_summary: the parts joined by "; " (no part: the empty string)
build_context_summary(memories, insights) ==
  LET top           == Prefix(memories, 3)
      recent_topics == UNION {IF "farming_context" \in DOMAIN top[i]
                              THEN Range(top[i].farming_context.crop_mentioned)
                              ELSE {} : i \in 1..Len(top)}
      insight_topics == [i \in 1..Len(Prefix(insights, 2)) |-> insights[i].topic]
      memory_part   == IF recent_topics # {}
                       THEN << [label |-> "Recent conversations about",
                                crops |-> recent_topics] >>
                       ELSE <<>>
      insight_part  == IF insight_topics # <<>>
                       THEN << [label |-> "Key farming insights",
                                topics |-> insight_topics] >>
                       ELSE <<>>
  IN  memory_part \o insight_part

\* memory.get("enhanced_relevance", memory.get("similarity_score", 0))
relevance_of(memory) ==
  IF "enhanced_relevance" \in DOMAIN memory THEN memory.enhanced_relevance
  ELSE memory.similarity_score

\* variant: an empty list of memories gets a neutral confidence
calculate_context_confidence_neutral_empty(memories) ==
  IF memories = <<>> THEN UNIT \div 2
  ELSE
    LET relevance_scores == [i \in 1..Len(memories) |-> relevance_of(memories[i])]
        avg_relevance    == Sum(relevance_scores) \div Len(relevance_scores)
        high             == Cardinality({i \in 1..Len(relevance_scores) :
                                           relevance_scores[i] > (7 * UNIT) \div 10})
        quality_boost    == Min((2 * UNIT) \div 10, (high * UNIT) \div 10)
    IN  Min(UNIT, avg_relevance + quality_boost)

\* _calculate_context_confidence
calculate_context_confidence(memories) ==
  IF memories = <<>> THEN 0
  ELSE
    LET relevance_scores == [i \in 1..Len(memories) |-> relevance_of(memories[i])]
        avg_relevance    == Sum(relevance_scores) \div Len(relevance_scores)
        high             == Cardinality({i \in 1..Len(relevance_scores) :
                                           relevance_scores[i] > (7 * UNIT) \div 10})
        quality_boost    == Min((2 * UNIT) \div 10, (high * UNIT) \div 10)
    IN  Min(UNIT, avg_relevance + quality_boost)

\* the similarity threshold get_intelligent_memory_context passes to the search
ContextThreshold ==
  (6 * UNIT) \div 10

\* the number of insights get_intelligent_memory_context asks for
ContextInsightLimit ==
  3

\* the default min_frequency of get_memory_insights
DefaultMinFrequency ==
  2

\* get_intelligent_memory_context: the candidates found, the enhanced list,
\* the context returned and the number of completion calls
\* variant: the context carries every enhanced memory
build_context_untruncated(relevant_memories, enhanced_memories, mined, max_memories) ==
  [ candidates |-> relevant_memories,
    enhanced   |-> enhanced_memories,
    llm_calls  |-> mined[2],
    context    |-> [ relevant_memories    |-> enhanced_memories,
                     memory_insights      |-> mined[1],
                     context_summary      |-> build_context_summary(enhanced_memories,
                                                                    mined[1]),
                     total_memories_found |-> Len(relevant_memories),
                     confidence_score     |-> calculate_context_confidence(
                                                 enhanced_memories) ] ]

\* step 4 of get_intelligent_memory_context: the context dict, with the lists
\* it was built from (mined = <<insights, number of completion calls>>)
build_context(relevant_memories, enhanced_memories, mined, max_memories) ==
  [ candidates |-> relevant_memories,
    enhanced   |-> enhanced_memories,
    llm_calls  |-> mined[2],
    context    |-> [ relevant_memories    |-> Prefix(enhanced_memories, max_memories),
                     memory_insights      |-> mined[1],
                     context_summary      |-> build_context_summary(enhanced_memories,
                                                                    mined[1]),
                     total_memories_found |-> Len(relevant_memories),
                     confidence_score     |-> calculate_context_confidence(
                                                 enhanced_memories) ] ]

\* steps 2 to 4 of get_intelligent_memory_context, given the search's result
context_from(relevant_memories, query, user_id, max_memories, include_insights, env) ==
  build_context(relevant_memories,
                enhance_memory_relevance(relevant_memories, query, user_id, env.db_ok),
                IF include_insights
                THEN get_memory_insights(user_id, ContextInsightLimit,
                                         DefaultMinFrequency, env.db_ok, env.failing)
                ELSE << <<>>, 0 >>,
                max_memories)

get_intelligent_memory_context(query, user_id, max_memories, include_insights, env) ==
  context_from(search_similar_conversations(query, user_id, max_memories * 2,
                                            ContextThreshold, env.qdrant_ok),
               query, user_id, max_memories, include_insights, env)

MaxMemoriesChoices ==
  {1, 2}

\* what the collaborators do during one context build
ContextEnvs ==
  { [qdrant_ok |-> TRUE,  db_ok |-> TRUE,  failing |-> {}],
    [qdrant_ok |-> FALSE, db_ok |-> TRUE,  failing |-> {}],
    [qdrant_ok |-> TRUE,  db_ok |-> FALSE, failing |-> {}] }

\* the context requests served: every query and max_memories for a user with
\* memories while the collaborators work, both queries under each failure,
\* requests without insights, and a request of the other user
ContextCalls ==
  LET Call(q, u, mm, ii, e) ==
        [ query |-> q, user_id |-> u, max_memories |-> mm, include_insights |-> ii,
          env |-> e ]
      working == {e \in ContextEnvs : e.qdrant_ok /\ e.db_ok}
  IN  {Call(q, "u1", mm, TRUE, e) : q \in QueryPool, mm \in MaxMemoriesChoices, e \in working}
        \cup {Call(q, "u1", 2, TRUE, e) : q \in QueryPool, e \in ContextEnvs \ working}
        \cup {Call(Q_hello, "u1", 1, FALSE, e) : e \in {x \in ContextEnvs : x.db_ok}}
        \cup {Call(Q_hello, "u2", 2, TRUE, e) : e \in working}

\* the documented scenario: message A, stored 2 days old, and message B,
\* stored 1 day old, both of user u1
ScenarioInputs ==
  { [user_id |-> "u1", session_id |-> "s1", message_type |-> "user", content |-> T_spots,
     has_metadata |-> TRUE, offset |-> 0 - 2 * DAY, null_content |-> FALSE],
    [user_id |-> "u1", session_id |-> "s2", message_type |-> "user", content |-> T_exchange,
     has_metadata |-> TRUE, offset |-> 0 - DAY, null_content |-> FALSE] }

\* the scenario's requests: its query, with max_memories 1 and the default 5
ScenarioCalls ==
  { [ query |-> Q_spots, user_id |-> "u1", max_memories |-> mm, include_insights |-> TRUE,
      env |-> [qdrant_ok |-> TRUE, db_ok |-> TRUE, failing |-> {}] ] : mm \in {1, 5} }

\* the record of one served context request
context_out(query, user_id, max_memories, include_insights, env, r) ==
  [ op |-> "context", query |-> query, user_id |-> user_id,
    max_memories |-> max_memories, include_insights |-> include_insights,
    qdrant_ok |-> env.qdrant_ok, db_ok |-> env.db_ok,
    failing |-> env.failing, embedder_ok |-> embedding_model,
    candidates |-> r.candidates, enhanced |-> r.enhanced,
    result |-> r.context, llm_calls |-> r.llm_calls ]

Context(query, user_id, max_memories, include_insights, env) ==
  /\ Ready
  /\ out' = context_out(query, user_id, max_memories, include_insights, env,
                        get_intelligent_memory_context(query, user_id, max_memories,
                                                       include_insights, env))
  /\ UNCHANGED <<clock, started, embedding_model, store>>


(* ------------------------ direct vector-store use ----------------------- *)

\* stores made to read them back: a content longer than the 500 characters
\* the payload keeps, with an extra metadata key; a store without metadata;
\* and a metadata that carries a key of the payload itself
RoundTripInputs ==
  { [user_id |-> "u1", session_id |-> "s1", message_type |-> "user", content |-> T_long,
     metadata |-> [timestamp |-> isoformat(DAY), source |-> "chat"]],
    [user_id |-> "u1", session_id |-> "s2", message_type |-> "assistant", content |-> T_clr,
     metadata |-> NoMetadata],
    [user_id |-> "u2", session_id |-> "s1", message_type |-> "user", content |-> T_thanks,
     metadata |-> [timestamp |-> isoformat(2 * DAY), session_id |-> "s2"]] }

\* the searches put to the vector store: the default threshold 0.7, the
\* default limit 5 and a limit of 1, with the index working or failing
SearchCalls ==
  { [ query_text |-> Q_hello, user_id |-> u, limit |-> l,
      similarity_threshold |-> (7 * UNIT) \div 10, qdrant_ok |-> ok ] :
      u \in Users, l \in {1, 5}, ok \in BOOLEAN }

\* VectorMemoryService.search_similar_conversations called on its own
SearchSimilarConversations(c) ==
  /\ Ready
  /\ out' = [ op |-> "search", query_text |-> c.query_text, user_id |-> c.user_id,
              limit |-> c.limit, qdrant_ok |-> c.qdrant_ok,
              result |-> search_similar_conversations(c.query_text, c.user_id, c.limit,
                                                      c.similarity_threshold, c.qdrant_ok) ]
  /\ UNCHANGED <<clock, started, embedding_model, store>>
(* --------------------------- lexical analysis -------------------------- *)

\* FARMING_TOPICS of memory_intelligence_config.py: the configured taxonomy
FARMING_TOPICS ==
  [ coffee |->
      { <<"c","o","f","f","e","e">>,
        <<"a","r","a","b","i","c","a">>,
        <<"r","o","b","u","s","t","a">>,
        <<"s","l","2","8">>,
        <<"s","l","3","4">>,
        <<"r","u","i","r","u">>,
        <<"b","a","t","i","a","n">>,
        <<"k","7">> },
    pests |->
      { <<"c","b","d">>,
        <<"c","l","r">>,
        <<"t","h","r","i","p","s">>,
        <<"m","i","t","e","s">>,
        <<"a","p","h","i","d","s">>,
        <<"p","e","s","t","s">>,
        <<"d","i","s","e","a","s","e">>,
        <<"f","u","n","g","u","s">> },
    weather |->
      { <<"r","a","i","n">>,
        <<"d","r","o","u","g","h","t">>,
        <<"w","e","a","t","h","e","r">>,
        <<"s","e","a","s","o","n">>,
        <<"c","l","i","m","a","t","e">>,
        <<"t","e","m","p","e","r","a","t","u","r","e">> },
    harvest |->
      { <<"h","a","r","v","e","s","t">>,
        <<"p","i","c","k","i","n","g">>,
        <<"p","r","o","c","e","s","s","i","n","g">>,
        <<"d","r","y","i","n","g">>,
        <<"m","i","l","l","i","n","g">>,
        <<"p","u","l","p","i","n","g">> },
    planting |->
      { <<"p","l","a","n","t","i","n","g">>,
        <<"s","e","e","d","l","i","n","g","s">>,
        <<"n","u","r","s","e","r","y">>,
        <<"s","p","a","c","i","n","g">>,
        <<"t","r","a","n","s","p","l","a","n","t","i","n","g">> },
    soil |->
      { <<"s","o","i","l">>,
        <<"f","e","r","t","i","l","i","z","e","r">>,
        <<"n","u","t","r","i","t","i","o","n">>,
        <<"p","h">>,
        <<"o","r","g","a","n","i","c">>,
        <<"c","o","m","p","o","s","t">>,
        <<"m","a","n","u","r","e">> },
    market |->
      { <<"p","r","i","c","e">>,
        <<"m","a","r","k","e","t">>,
        <<"s","e","l","l","i","n","g">>,
        <<"b","u","y","e","r">>,
        <<"c","o","o","p","e","r","a","t","i","v","e">>,
        <<"a","u","c","t","i","o","n">>,
        <<"g","r","a","d","e">> },
    quality |->
      { <<"q","u","a","l","i","t","y">>,
        <<"g","r","a","d","e">>,
        <<"a","a">>,
        <<"a","b">>,
        <<"s","c","r","e","e","n","i","n","g">>,
        <<"d","e","f","e","c","t","s">>,
        <<"c","u","p","p","i","n","g">> } ]

\* words the analysed texts are made of: one per classification rule, one
\* that hits two rules ("helpful" contains "help"), one of the quality
\* topic, and one that hits nothing
LexicalWords ==
  { <<"W","h","a","t">>,
    <<"p","r","o","b","l","e","m">>,
    <<"h","e","l","p","f","u","l">>,
    <<"t","h","a","n","k","s">>,
    <<"p","r","i","c","e">>,
    <<"h","a","r","v","e","s","t">>,
    <<"q","u","a","l","i","t","y">>,
    <<"h","e","l","l","o">> }

\* the analysed texts: one word, or two words separated by a space
LexicalTexts ==
  LexicalWords \cup {a \o <<" ">> \o b : a, b \in LexicalWords}

\* _extract_farming_topics applied to a text
ExtractFarmingTopics(text) ==
  /\ Ready
  /\ out' = [op |-> "topics", text |-> text, result |-> extract_farming_topics(text)]
  /\ UNCHANGED <<clock, started, embedding_model, store>>

\* _classify_memory_type applied to a memory with this content
ClassifyMemoryType(text) ==
  /\ Ready
  /\ out' = [op |-> "classify", text |-> text, result |-> classify_memory_type(text)]
  /\ UNCHANGED <<clock, started, embedding_model, store>>

\* texts handed to create_embedding: padded and irregularly spaced ones, the
\* empty text, and unbroken texts of exactly the cap and of one character more
EmbedTexts ==
  { <<>>,
    <<" ", " ">>,
    T_clr,
    <<" ">> \o T_clr \o <<" ", "\n">>,
    <<"C","L","R"," "," ","\t","p","r","i","c","e","?">>,
    [i \in 1..MaxEmbedChars |-> "x"],
    [i \in 1..(MaxEmbedChars + 1) |-> "x"] }

\* EmbeddingService.create_embedding: the text handed to the encoder, or
\* RuntimeError when no encoder is loaded
CreateEmbedding(text) ==
  /\ Ready
  /\ out' = [ op |-> "embed", text |-> text,
              raised |-> ~embedding_model,
              cleaned_text |-> IF embedding_model THEN Some(clean_text(text)) ELSE None ]
  /\ UNCHANGED <<clock, started, embedding_model, store>>

\* the text analyses and the encoder's input, each applied on its own
NextLexical ==
  \/ Startup
  \/ Tick
  \/ Return
  \/ \E text \in LexicalTexts : ExtractFarmingTopics(text)
  \/ \E text \in LexicalTexts : ClassifyMemoryType(text)
  \/ \E text \in EmbedTexts : CreateEmbedding(text)

SpecLexical ==
  Init /\ [][NextLexical]_vars

(* ------------------- the context composer, step by step ----------------- *)

\* the context requests followed step by step
StepCalls ==
  { [ query |-> Q_hello, user_id |-> "u1", max_memories |-> 1, include_insights |-> ii,
      env |-> e ] : ii \in BOOLEAN, e \in ContextEnvs }

\* get_intelligent_memory_context is entered
ContextBegin(c) ==
  /\ Ready
  /\ out' = [ op |-> "context_steps", pc |-> "search_embed", call |-> c, events |-> <<>>,
              candidates |-> <<>>, enhanced |-> <<>>, result |-> None ]
  /\ UNCHANGED <<clock, started, embedding_model, store>>

\* variant: the search goes on to the vector index whatever the encoder did
after_embedding_always_query(embedded) ==
  "search_query"

\* search_similar_conversations after its create_embedding call: on to the
\* vector index, or, when create_embedding raised, through the except
\* branch, which returns []
after_embedding(embedded) ==
  IF embedded THEN "search_query" ELSE "enhance"

\* search_similar_conversations: create_embedding(query_text)
SearchEmbed ==
  /\ out.op = "context_steps" /\ out.pc = "search_embed"
  /\ out' = [out EXCEPT !.events = Append(@, IF embedding_model THEN "embed_ok"
                                             ELSE "embed_raised"),
                        !.pc = after_embedding(embedding_model)]
  /\ UNCHANGED <<clock, started, embedding_model, store>>

\* search_similar_conversations: qdrant_client.search and the formatting of
\* its hits, or [] when the index raises
SearchQuery ==
  /\ out.op = "context_steps" /\ out.pc = "search_query"
  /\ out' = [out EXCEPT !.events = Append(@, IF out.call.env.qdrant_ok THEN "query_ok"
                                             ELSE "query_raised"),
                        !.candidates =
                           IF embedding_model
                           THEN search_similar_conversations(
                                   out.call.query, out.call.user_id,
                                   out.call.max_memories * 2, ContextThreshold,
                                   out.call.env.qdrant_ok)
                           ELSE <<>>,
                        !.pc = "enhance"]
  /\ UNCHANGED <<clock, started, embedding_model, store>>

\* step 2 of get_intelligent_memory_context: _enhance_memory_relevance
EnhanceStep ==
  /\ out.op = "context_steps" /\ out.pc = "enhance"
  /\ out' = [out EXCEPT !.events = Append(@, "enhance"),
                        !.enhanced = enhance_memory_relevance(
                                        out.candidates, out.call.query, out.call.user_id,
                                        out.call.env.db_ok),
                        !.pc = "build"]
  /\ UNCHANGED <<clock, started, embedding_model, store>>

\* steps 3 and 4 of get_intelligent_memory_context: the insights and the
\* context dict
BuildStep ==
  /\ out.op = "context_steps" /\ out.pc = "build"
  /\ out' = [out EXCEPT !.result =
                           Some(build_context(
                                   out.candidates, out.enhanced,
                                   IF out.call.include_insights
                                   THEN get_memory_insights(out.call.user_id,
                                           ContextInsightLimit, DefaultMinFrequency,
                                           out.call.env.db_ok, out.call.env.failing)
                                   ELSE << <<>>, 0 >>,
                                   out.call.max_memories).context),
                        !.pc = "done"]
  /\ UNCHANGED <<clock, started, embedding_model, store>>

\* get_intelligent_memory_context returns
ContextReturn ==
  /\ out.op = "context_steps" /\ out.pc = "done"
  /\ out' = Idle
  /\ UNCHANGED <<clock, started, embedding_model, store>>

NextContextSteps ==
  \/ Startup
  \/ Tick
  \/ \E in \in DirectInputs : StoreConversationMemory(in)
  \/ \E c \in StepCalls : ContextBegin(c)
  \/ SearchEmbed
  \/ SearchQuery
  \/ EnhanceStep
  \/ BuildStep
  \/ ContextReturn

SpecContextSteps ==
  Init /\ [][NextContextSteps]_vars

(* --------------------------- session history ---------------------------- *)

\* the limit process_chat_message reads the session's history with
HistoryLimit ==
  10

\* MemoryService.get_conversation_history: the rows of the session ORDER BY
\* created_at, LIMIT limit when limit is not 0; [] when the database fails
get_conversation_history(session_id, limit, db_ok) ==
  IF ~db_ok THEN <<>>
  ELSE
    LET rows   == SelectSeq(messages, LAMBDA m : m.session_id = session_id)
        sorted == StableSortAsc(rows, created_at_of(rows))
    IN  IF limit # 0 THEN Prefix(sorted, limit) ELSE sorted

\* the chat path reads the history of the session
GetConversationHistory(session_id, db_ok) ==
  /\ Ready
  /\ out' = [ op |-> "history", session_id |-> session_id, limit |-> HistoryLimit,
              db_ok |-> db_ok,
              result |-> get_conversation_history(session_id, HistoryLimit, db_ok) ]
  /\ UNCHANGED <<clock, started, embedding_model, store>>

\* the farmer's turns of one long session
HistoryInputs ==
  { [session_id |-> "s1", user_id |-> "u1", message_type |-> "user", content |-> T_price] }

\* store_conversation_message within that session
StoreSessionMessage(in) ==
  /\ Len(messages) < MaxSessionMessages
  /\ store_conversation_message(in, "never")

NextHistory ==
  \/ Startup
  \/ Tick
  \/ Return
  \/ \E in \in HistoryInputs : StoreSessionMessage(in)
  \/ \E s \in Sessions, db_ok \in BOOLEAN : GetConversationHistory(s, db_ok)

SpecHistory ==
  Init /\ [][NextHistory]_vars

(* ------------------ two store_conversation_message calls ---------------- *)

\* the two calls in flight
Callers ==
  {1, 2}

\* pairs of turns stored at the same time: two turns of one session, by one
\* user or by both, and turns of different sessions
ConcurrentInputs ==
  { <<a, b>> \in ChatInputs \X (ChatInputs \cup SharedSessionInputs) :
       a.message_type = "user" /\ b.message_type = "user" /\ a.content # b.content }

\* two requests call store_conversation_message; each runs up to its next
\* await in turn
ConcurrentBegin(pair) ==
  /\ Ready
  /\ Len(messages) + Len(points) - Len(embedding_refs) + 2 <= MaxStored
  /\ out' = [ op |-> "concurrent_stores",
              call |-> [p \in Callers |->
                          [pc |-> "select_session", in |-> pair[p], raised |-> FALSE]] ]
  /\ UNCHANGED <<clock, started, embedding_model, store>>

\* the call p is at position pc
At(p, pc) ==
  /\ out.op = "concurrent_stores"
  /\ out.call[p].pc = pc

\* get_or_create_conversation_session: the SELECT by session_id; a session
\* that is found is refreshed and committed
SelectSession(p) ==
  /\ At(p, "select_session")
  /\ LET in == out.call[p].in
     IN  IF SessionExists(in.session_id)
         THEN /\ sessions' = get_or_create_conversation_session(in.session_id, in.user_id)
              /\ out' = [out EXCEPT !.call[p].pc = "insert_message"]
         ELSE /\ UNCHANGED sessions
              /\ out' = [out EXCEPT !.call[p].pc = "select_profile"]
  /\ UNCHANGED <<clock, started, embedding_model, profiles, messages, embedding_refs, points>>

\* get_or_create_user_profile: the SELECT by user_id
SelectProfile(p) ==
  /\ At(p, "select_profile")
  /\ out' = [out EXCEPT !.call[p].pc = IF out.call[p].in.user_id \in profiles
                                       THEN "insert_session" ELSE "insert_profile"]
  /\ UNCHANGED <<clock, started, embedding_model, store>>

\* get_or_create_user_profile: the INSERT and its commit; user_id is unique,
\* so the commit raises when the profile has appeared meanwhile
InsertProfile(p) ==
  /\ At(p, "insert_profile")
  /\ IF out.call[p].in.user_id \in profiles
     THEN /\ out' = [out EXCEPT !.call[p].pc = "done", !.call[p].raised = TRUE]
          /\ UNCHANGED profiles
     ELSE /\ out' = [out EXCEPT !.call[p].pc = "insert_session"]
          /\ profiles' = profiles \cup {out.call[p].in.user_id}
  /\ UNCHANGED <<clock, started, embedding_model, sessions, messages, embedding_refs, points>>

\* get_or_create_conversation_session: the INSERT and its commit; session_id
\* is unique, so the commit raises when the session has appeared meanwhile,
\* and the exception leaves store_conversation_message
InsertSession(p) ==
  /\ At(p, "insert_session")
  /\ LET in == out.call[p].in
     IN  IF SessionExists(in.session_id)
         THEN /\ out' = [out EXCEPT !.call[p].pc = "done", !.call[p].raised = TRUE]
              /\ UNCHANGED sessions
         ELSE /\ out' = [out EXCEPT !.call[p].pc = "insert_message"]
              /\ sessions' = get_or_create_conversation_session(in.session_id, in.user_id)
  /\ UNCHANGED <<clock, started, embedding_model, profiles, messages, embedding_refs, points>>

\* store_conversation_message: the message row and its vector
InsertMessage(p) ==
  /\ At(p, "insert_message")
  /\ LET in == out.call[p].in
         message == [ id           |-> Len(messages) + 1,
                      session_id   |-> in.session_id,
                      user_id      |-> in.user_id,
                      message_type |-> in.message_type,
                      content      |-> in.content,
                      created_at   |-> clock ]
     IN  /\ messages' = Append(messages, message)
         /\ IF embedding_model
            THEN /\ points' = Append(points,
                       [ vector  |-> create_embedding(in.content),
                         payload |-> point_metadata(message.id, in.user_id, in.session_id,
                                        in.content, in.message_type,
                                        [ timestamp   |-> isoformat(message.created_at),
                                          tokens_used |-> None,
                                          model_used  |-> None ]) ])
                 /\ embedding_refs' = Append(embedding_refs,
                       [message_id |-> message.id, qdrant_point_id |-> Len(points) + 1])
            ELSE UNCHANGED <<points, embedding_refs>>
  /\ out' = [out EXCEPT !.call[p].pc = "done"]
  /\ UNCHANGED <<clock, started, embedding_model, profiles, sessions>>

\* both calls have returned or raised
ConcurrentReturn ==
  /\ out.op = "concurrent_stores"
  /\ \A p \in Callers : out.call[p].pc = "done"
  /\ out' = Idle
  /\ UNCHANGED <<clock, started, embedding_model, store>>

NextConcurrent ==
  \/ Startup
  \/ Tick
  \/ \E in \in ChatInputs : StoreConversationMessage(in, "never")
  \/ \E pair \in ConcurrentInputs : ConcurrentBegin(pair)
  \/ \E p \in Callers : SelectSession(p)
  \/ \E p \in Callers : SelectProfile(p)
  \/ \E p \in Callers : InsertProfile(p)
  \/ \E p \in Callers : InsertSession(p)
  \/ \E p \in Callers : InsertMessage(p)
  \/ ConcurrentReturn

SpecConcurrent ==
  Init /\ [][NextConcurrent]_vars

(* ------------------------------ two users ------------------------------- *)

\* the context requests of either user, every collaborator working
IsolationCalls ==
  { [ query |-> q, user_id |-> u, max_memories |-> 2, include_insights |-> TRUE,
      env |-> [qdrant_ok |-> TRUE, db_ok |-> TRUE, failing |-> {}] ] :
      q \in QueryPool, u \in Users }

\* a turn of another user is stored while the context computed for out.user_id
\* is still with its caller (the handlers are coroutines of one event loop);
\* the record notes that the store has moved on since
StoreByOtherUser(in) ==
  /\ started
  /\ out # Idle
  /\ out.op = "context"
  /\ in.user_id # out.user_id
  /\ Len(messages) + Len(points) - Len(embedding_refs) < MaxStored
  /\ store_message_rows(in, "never")
  /\ out' = [k \in DOMAIN out \cup {"others_stored"} |->
                IF k = "others_stored" THEN TRUE ELSE out[k]]

\* both users store turns, also under one session id, and ask for context
NextIsolation ==
  \/ Startup
  \/ Tick
  \/ Return
  \/ \E in \in ChatInputs \cup SharedSessionInputs : StoreConversationMessage(in, "never")
  \/ \E in \in ChatInputs \cup SharedSessionInputs : StoreByOtherUser(in)
  \/ \E c \in IsolationCalls :
        Context(c.query, c.user_id, c.max_memories, c.include_insights, c.env)

SpecIsolation ==
  Init /\ [][NextIsolation]_vars

(* ---------------------------- specifications --------------------------- *)

\* the store, as the chat path and the clock change it
NextStore ==
  \/ Startup
  \/ Tick
  \/ Return
  \/ \E in \in ChatInputs : StoreConversationMessage(in, "never")

NextConsolidate ==
  \/ NextStore
  \/ \E s \in Sessions, u \in Users, env \in ConsolidateEnvs : Consolidate(s, u, env)

NextInsights ==
  \/ NextStore
  \/ \E u \in Users, limit \in Limits, mf \in MinFrequencies, env \in InsightEnvs :
        Insights(u, limit, mf, env)

SpecConsolidate ==
  Init /\ [][NextConsolidate]_vars

SpecInsights ==
  Init /\ [][NextInsights]_vars

NextContext ==
  \/ NextStore
  \/ \E in \in DirectInputs : StoreConversationMemory(in)
  \/ \E c \in ContextCalls :
        Context(c.query, c.user_id, c.max_memories, c.include_insights, c.env)

SpecContext ==
  Init /\ [][NextContext]_vars


\* the documented scenario: only its two messages are stored, directly in the
\* vector store, and only its query is asked
NextScenario ==
  \/ Startup
  \/ Tick
  \/ Return
  \/ \E in \in ScenarioInputs : StoreConversationMemory(in)
  \/ \E c \in ScenarioCalls :
        Context(c.query, c.user_id, c.max_memories, c.include_insights, c.env)

SpecScenario ==
  Init /\ [][NextScenario]_vars


\* the vector store used directly: stores and searches
NextRoundTrip ==
  \/ Startup
  \/ Tick
  \/ Return
  \/ \E in \in RoundTripInputs : StoreConversationMemory(in)
  \/ \E c \in SearchCalls : SearchSimilarConversations(c)

SpecRoundTrip ==
  Init /\ [][NextRoundTrip]_vars


\* the message store alone, its database failing at any commit
NextMessages ==
  \/ Startup
  \/ Tick
  \/ \E in \in ChatInputs \cup SharedSessionInputs, db_fails \in DbFailures :
        StoreConversationMessage(in, db_fails)

SpecMessages ==
  Init /\ [][NextMessages]_vars


\* the two users of the Generative Completion service side by side
NextGenerative ==
  \/ NextStore
  \/ \E s \in Sessions, u \in Users, env \in ConsolidateEnvs : Consolidate(s, u, env)
  \/ \E u \in Users, limit \in Limits, mf \in MinFrequencies, env \in InsightEnvs :
        Insights(u, limit, mf, env)

SpecGenerative ==
  Init /\ [][NextGenerative]_vars

(* ------------------- properties: relevance engine ---------------------- *)

\* the memory carries the fields the relevance engine adds
IsEnhanced(m) ==
  "enhanced_relevance" \in DOMAIN m

\* position of an output memory in the candidate list the engine was given
InputIndex(m) ==
  CHOOSE i \in 1..Len(out.candidates) : out.candidates[i].message_id = m.message_id

\* C1: every enhanced memory returned by _enhance_memory_relevance has a
\* total_score (enhanced_relevance) between 0 and 1, also when the scoring
\* took its except branch and the total is the raw similarity.
C1_TotalScoreInUnitInterval ==
  out.op = "context" =>
    \A i \in 1..Len(out.enhanced) :
       IsEnhanced(out.enhanced[i]) =>
          /\ out.enhanced[i].enhanced_relevance >= 0
          /\ out.enhanced[i].enhanced_relevance <= UNIT
          /\ out.enhanced[i].relevance_factors.total_score
               = out.enhanced[i].enhanced_relevance

\* one memory scored by the except branch (no timestamp) next to one whose
\* weighted sum reached the upper clamp
C1_Witness ==
  /\ out.op = "context"
  /\ \E i, j \in 1..Len(out.enhanced) :
        /\ IsEnhanced(out.enhanced[i]) /\ IsEnhanced(out.enhanced[j])
        /\ out.enhanced[i].timestamp = None
        /\ out.enhanced[i].enhanced_relevance = out.enhanced[i].similarity_score
        /\ out.enhanced[j].timestamp # None
        /\ out.enhanced[j].relevance_factors.recency_score > UNIT
        /\ out.enhanced[j].enhanced_relevance = UNIT

\* C2: the list returned by _enhance_memory_relevance is non-increasing in
\* total_score, and memories of equal total_score keep the relative order
\* they had in the candidate list.
C2_SortedStable ==
  out.op = "context" =>
    \A i, j \in 1..Len(out.enhanced) :
       (i < j /\ IsEnhanced(out.enhanced[i]) /\ IsEnhanced(out.enhanced[j])) =>
          /\ out.enhanced[i].enhanced_relevance >= out.enhanced[j].enhanced_relevance
          /\ out.enhanced[i].enhanced_relevance = out.enhanced[j].enhanced_relevance
               => InputIndex(out.enhanced[i]) < InputIndex(out.enhanced[j])

\* a list in which two memories tie and a third, given last, ranks first
C2_Witness ==
  /\ out.op = "context"
  /\ \E i, j, k \in 1..Len(out.enhanced) :
        /\ i < j /\ j < k
        /\ IsEnhanced(out.enhanced[i]) /\ IsEnhanced(out.enhanced[j])
        /\ IsEnhanced(out.enhanced[k])
        /\ out.enhanced[i].enhanced_relevance > out.enhanced[j].enhanced_relevance
        /\ out.enhanced[j].enhanced_relevance = out.enhanced[k].enhanced_relevance
        /\ InputIndex(out.enhanced[i]) > InputIndex(out.enhanced[k])

\* C3: a candidate whose enhancement fails does not abort the batch: the
\* output has exactly one entry per candidate, the failed candidate comes back
\* as it was given (no relevance factors), every other one comes back enhanced.
C3_FailureIsolation ==
  out.op = "context" =>
    /\ Len(out.enhanced) = Len(out.candidates)
    /\ \A i \in 1..Len(out.candidates) :
          LET c    == out.candidates[i]
              hits == {j \in 1..Len(out.enhanced) :
                         out.enhanced[j].message_id = c.message_id}
          IN  /\ Cardinality(hits) = 1
              /\ \A j \in hits :
                    IF c.content = None
                    THEN /\ DOMAIN out.enhanced[j] = DOMAIN c
                         /\ \A k \in DOMAIN c : out.enhanced[j][k] = c[k]
                    ELSE /\ IsEnhanced(out.enhanced[j])
                         /\ "relevance_factors" \in DOMAIN out.enhanced[j]
                         /\ \A k \in DOMAIN c : out.enhanced[j][k] = c[k]

\* a batch with a failing candidate (content None) and an enhanced one
C3_Witness ==
  /\ out.op = "context"
  /\ \E i, j \in 1..Len(out.candidates) :
        /\ out.candidates[i].content = None
        /\ out.candidates[j].content # None
  /\ \E i, j \in 1..Len(out.enhanced) :
        /\ ~IsEnhanced(out.enhanced[i])
        /\ IsEnhanced(out.enhanced[j])

(* ------------------- properties: context composer ---------------------- *)

\* the context of the except branch of get_intelligent_memory_context
EmptyContext ==
  [ relevant_memories    |-> <<>>,
    memory_insights      |-> <<>>,
    context_summary      |-> <<>>,
    total_memories_found |-> 0,
    confidence_score     |-> 0 ]

\* the embedder could not run or the vector search failed
SearchFailed ==
  out.op = "context" /\ (~out.embedder_ok \/ ~out.qdrant_ok)

\* C4 as stated: when the embedder cannot run or the vector search fails, the
\* context returned is the all-empty, zero-confidence context.
C4_Original ==
  SearchFailed => out.result = EmptyContext

\* C4 amended: when the embedder cannot run or the vector search fails, the
\* context has no memories, total_memories_found 0 and confidence 0; the
\* insights are still mined when requested, and the summary is empty exactly
\* when no insight is returned.
C4_SearchFailureDegrades ==
  SearchFailed =>
    /\ out.result.relevant_memories = <<>>
    /\ out.candidates = <<>>
    /\ out.result.total_memories_found = 0
    /\ out.result.confidence_score = 0
    /\ ~out.include_insights => out.result = EmptyContext
    /\ (out.result.context_summary = <<>>) <=> (out.result.memory_insights = <<>>)

\* the vector search failed for a user who has stored memories and insights
C4_Witness ==
  /\ SearchFailed
  /\ out.embedder_ok
  /\ \E i \in 1..Len(points) : points[i].payload.user_id = out.user_id
  /\ out.result.memory_insights # <<>>
  /\ out.result.confidence_score = 0

(* ------------------- properties: session consolidation ----------------- *)

\* the stored messages of the session the last consolidation was asked for,
\* oldest first
ConsolidatedMessages ==
  SelectSeq(messages, LAMBDA m : m.session_id = out.session_id /\ m.user_id = out.user_id)

\* the completion call failed or its reply was not parseable as JSON
UnparseableReply ==
  out.reply \in {"error", "free_text", "null_content"}

\* C5 as stated: a session with at least 2 stored messages always yields a
\* ConversationSummary, whatever the completion call does, with message_count
\* equal to the stored count and duration_minutes >= 0.
C5_Original ==
  (out.op = "consolidate" /\ out.db_ok /\ Len(ConsolidatedMessages) >= 2) =>
     /\ out.result.kind = "summary"
     /\ out.result.message_count = Len(ConsolidatedMessages)
     /\ out.result.duration_minutes >= 0

\* C6: with fewer than 2 stored messages consolidate_session_memory returns
\* the not-eligible result (None) and makes no completion call.
C6_NotEligibleNoCompletion ==
  (out.op = "consolidate" /\ Len(ConsolidatedMessages) < 2) =>
     /\ out.result = NoResult
     /\ out.llm_calls = 0

\* a consolidation of a session holding exactly one message, repository up
C6_Witness ==
  /\ out.op = "consolidate"
  /\ out.db_ok
  /\ Len(ConsolidatedMessages) = 1
  /\ out.result = NoResult

\* the fallback fields of a summary, apart from the tone
FallbackShape ==
  /\ out.result.key_topics
       = Prefix(extract_farming_topics(
                  JoinSpace([i \in 1..Len(ConsolidatedMessages) |->
                               ConsolidatedMessages[i].content])), 5)
  /\ out.result.summary.template = "Conversation about"
  /\ out.result.action_items = <<>>
  /\ out.result.farming_insights = <<>>

\* C7 as stated: on an unparseable reply or a failed call the summary is the
\* fallback with tone "neutral".
C7_Original ==
  (out.op = "consolidate" /\ UnparseableReply /\ out.result # NoResult) =>
     /\ FallbackShape
     /\ out.result.emotional_tone = "neutral"

\* C7 amended: on an unparseable reply or a failed call the summary is the
\* fallback: key_topics are the first five taxonomy topics of the transcript
\* joined with spaces, the summary is the template, action_items and
\* farming_insights are empty, and the tone is "professional".
C7_FallbackSummary ==
  (out.op = "consolidate" /\ UnparseableReply /\ out.result # NoResult) =>
     /\ FallbackShape
     /\ out.result.emotional_tone = "professional"

\* a fallback summary whose topics come from an assistant message as well
C7_Witness ==
  /\ out.op = "consolidate"
  /\ out.reply = "free_text"
  /\ out.result # NoResult
  /\ \E i \in 1..Len(ConsolidatedMessages) :
        ConsolidatedMessages[i].message_type = "assistant"
  /\ "pests" \in Range(out.result.key_topics)
  /\ out.result.emotional_tone = "professional"

(* ------------------- properties: insight miner ------------------------- *)

\* the user's messages of type 'user' inside the window that mention `topic`,
\* for the user of the last mining run
UserMentions(topic) ==
  {i \in 1..Len(messages) :
      /\ messages[i].user_id = out.user_id
      /\ messages[i].message_type = "user"
      /\ messages[i].created_at > clock - WindowDays * DAY
      /\ topic \in Range(extract_farming_topics(messages[i].content))}

\* the topics mentioned in the window
WindowTopics ==
  {topic \in Range(TopicOrder) : UserMentions(topic) # {}}

\* the insights that survive the frequency step: mined by
\* _analyze_conversation_patterns and passing frequency >= min_frequency
FrequencySurvivors ==
  LET insights == analyze_conversation_patterns(insight_rows(out.user_id), out.failing)
  IN  {insights[i].topic : i \in {j \in 1..Len(insights) :
                                     passes_frequency(insights[j], out.min_frequency)}}

\* C8: no insight returned by get_memory_insights has frequency below 2; its
\* frequency is the number of the user's in-window messages of type 'user'
\* that mention the topic, so a topic mentioned once never appears.
C8_FrequencyAtLeastTwo ==
  out.op = "insights" =>
    \A i \in 1..Len(out.result) :
       /\ out.result[i].frequency >= 2
       /\ out.result[i].frequency = Cardinality(UserMentions(out.result[i].topic))

\* a run with min_frequency = 2 that returns an insight while another topic
\* of the window has exactly one mention
C8_Witness ==
  /\ out.op = "insights"
  /\ out.min_frequency = 2
  /\ out.result # <<>>
  /\ \E topic \in WindowTopics :
        /\ Cardinality(UserMentions(topic)) = 1
        /\ \A i \in 1..Len(out.result) : out.result[i].topic # topic

\* C9 as stated: for every min_frequency, the test's 1 included, a topic is
\* dropped at the frequency step if and only if its message count is below
\* min_frequency.
C9_Original ==
  (out.op = "insights" /\ out.db_ok) =>
    \A topic \in WindowTopics :
       (topic \notin FrequencySurvivors)
          <=> (Cardinality(UserMentions(topic)) < out.min_frequency)

\* the insights of the window that qualify for the output of the last run
Qualifying ==
  LET insights == analyze_conversation_patterns(insight_rows(out.user_id), out.failing)
  IN  IF ~out.db_ok THEN {}
      ELSE {insights[i] : i \in {j \in 1..Len(insights) :
                                    /\ insights[j].frequency >= out.min_frequency
                                    /\ insights[j].importance_score * 2 > UNIT}}

\* C10: get_memory_insights returns only insights with importance_score > 0.5,
\* in non-increasing order of importance_score, at most `limit` of them, and
\* they are the highest-importance qualifying insights.
C10_TopRankedInsights ==
  out.op = "insights" =>
    /\ Len(out.result) = Min(out.limit, Cardinality(Qualifying))
    /\ \A i \in 1..Len(out.result) :
          /\ out.result[i].importance_score * 2 > UNIT
          /\ out.result[i] \in Qualifying
          /\ \A q \in Qualifying :
                (\A j \in 1..Len(out.result) : out.result[j] # q)
                   => q.importance_score <= out.result[i].importance_score
    /\ \A i, j \in 1..Len(out.result) :
          i < j => /\ out.result[i].importance_score >= out.result[j].importance_score
                   /\ out.result[i].topic # out.result[j].topic

\* a run where more insights qualify than the limit admits, and the one
\* returned first was not mined first
C10_Witness ==
  /\ out.op = "insights"
  /\ Cardinality(Qualifying) > out.limit
  /\ out.result # <<>>
  /\ LET insights == analyze_conversation_patterns(insight_rows(out.user_id), out.failing)
     IN  /\ insights[1] \in Qualifying
         /\ insights[1].importance_score < out.result[1].importance_score

\* the insights mined in the last run, before the filter, and what the same
\* run mines when no completion call fails
MinedInsights ==
  analyze_conversation_patterns(insight_rows(out.user_id), out.failing)

MinedWithoutFailure ==
  analyze_conversation_patterns(insight_rows(out.user_id), {})

\* C11: a failed completion call for one topic turns only that topic's summary
\* into the template "Frequently discussed: {topic} ({frequency} times)";
\* every topic mentioned at least twice still gets its own completion call,
\* and the insights of the other topics are what they are without the failure.
C11_TopicFailureIsolated ==
  (out.op = "insights" /\ out.db_ok) =>
    /\ out.llm_calls
         = Cardinality({topic \in WindowTopics : Cardinality(UserMentions(topic)) >= 2})
    /\ Len(MinedInsights) = Len(MinedWithoutFailure)
    /\ \A i \in 1..Len(MinedInsights) :
          LET x == MinedInsights[i]
              y == MinedWithoutFailure[i]
          IN  /\ x.topic = y.topic
              /\ IF x.topic \in out.failing
                 THEN /\ x.summary = [ kind |-> "Frequently discussed", topic |-> x.topic,
                                       times |-> Cardinality(UserMentions(x.topic)) ]
                      /\ [x EXCEPT !.summary = y.summary] = y
                 ELSE /\ x = y
                      /\ x.summary.kind = "llm"
    /\ \A i \in 1..Len(out.result) :
          \E j \in 1..Len(MinedInsights) : out.result[i] = MinedInsights[j]

\* a run in which the call for coffee fails and the one for market succeeds,
\* both insights being returned
C11_Witness ==
  /\ out.op = "insights"
  /\ out.failing = {"coffee"}
  /\ \E i, j \in 1..Len(out.result) :
        /\ out.result[i].topic = "coffee"
        /\ out.result[i].summary.kind = "Frequently discussed"
        /\ out.result[j].topic = "market"
        /\ out.result[j].summary.kind = "llm"

\* the last run read the repository and some topic qualified for its output
SomeTopicQualifies ==
  /\ out.db_ok
  /\ \E topic \in WindowTopics :
        /\ Cardinality(UserMentions(topic)) >= 2
        /\ Cardinality(UserMentions(topic)) >= out.min_frequency
        /\ \E i \in 1..Len(MinedInsights) :
              /\ MinedInsights[i].topic = topic
              /\ MinedInsights[i].importance_score * 2 > UNIT

\* C12: get_memory_insights returns the empty list when the repository read
\* fails (making no completion call) and when no topic qualifies: no message
\* in the window, or no topic reaching the frequency and importance thresholds.
C12_EmptyWhenNothingQualifies ==
  out.op = "insights" =>
    /\ ~out.db_ok => (out.result = <<>> /\ out.llm_calls = 0)
    /\ WindowTopics = {} => (out.result = <<>> /\ out.llm_calls = 0)
    /\ ~SomeTopicQualifies => out.result = <<>>

\* the repository read fails for a user whose messages would yield an insight
C12_Witness ==
  /\ out.op = "insights"
  /\ ~out.db_ok
  /\ out.result = <<>>
  /\ \E topic \in WindowTopics :
        /\ Cardinality(UserMentions(topic)) >= 2
        /\ \E i \in 1..Len(MinedInsights) :
              /\ MinedInsights[i].topic = topic
              /\ MinedInsights[i].importance_score * 2 > UNIT

(* ------------------- properties: documented scenario ------------------- *)

\* the stored points of the requesting user that hold message A
ScenarioA ==
  {i \in 1..Len(points) : /\ points[i].payload.user_id = out.user_id
                          /\ points[i].payload.content = Some(T_spots)}

\* the scenario's request was served from a store holding message A once,
\* 2 days old, any other point being message B
ScenarioCase ==
  /\ out.op = "context"
  /\ out.query = Q_spots
  /\ out.embedder_ok
  /\ Cardinality(ScenarioA) = 1
  /\ \A i \in ScenarioA : points[i].payload.timestamp = isoformat(clock - 2 * DAY)
  /\ \A i \in 1..Len(points) :
        i \in ScenarioA \/ points[i].payload.content = Some(T_exchange)

\* the context holds exactly one enhanced memory, message A
OnlyMessageA ==
  /\ Len(out.enhanced) = 1
  /\ Len(out.result.relevant_memories) = 1
  /\ out.result.relevant_memories[1] = out.enhanced[1]
  /\ out.enhanced[1].content = Some(T_spots)
  /\ out.enhanced[1].similarity_score = (82 * UNIT) \div 100

ConfidenceOver(memories) ==
  LET total == Sum([i \in 1..Len(memories) |-> memories[i].enhanced_relevance])
      high  == Cardinality({i \in 1..Len(memories) :
                              memories[i].enhanced_relevance * 10 > 7 * UNIT})
  IN  Min(UNIT, total \div Len(memories) + Min((2 * UNIT) \div 10, (high * UNIT) \div 10))

\* every candidate of the last context request was enhanced
AllEnhanced ==
  \A i \in 1..Len(out.enhanced) : IsEnhanced(out.enhanced[i])

\* C14 as stated: confidence_score is the clamped average of total_score over
\* the memories returned in relevant_memories plus min(0.2, 0.1 x the number
\* of those with total_score > 0.7).
C14_Original ==
  (out.op = "context" /\ AllEnhanced /\ out.result.relevant_memories # <<>>) =>
     out.result.confidence_score = ConfidenceOver(out.result.relevant_memories)

\* the argument of _calculate_context_confidence is enhanced_memories: the
\* formula ranges over every enhanced memory, returned or not
ConfidenceOverAllEnhanced ==
  (out.op = "context" /\ AllEnhanced /\ out.enhanced # <<>>) =>
     out.result.confidence_score = ConfidenceOver(out.enhanced)

\* C15: when the vector index returns no candidate, the context has
\* confidence_score 0.0 and relevant_memories [].
C15_EmptyCandidates ==
  (out.op = "context" /\ out.candidates = <<>>) =>
     /\ out.result.confidence_score = 0
     /\ out.result.relevant_memories = <<>>
     /\ out.result.total_memories_found = 0

\* the search ran, and every point of the user scored below the threshold
C15_Witness ==
  /\ out.op = "context"
  /\ out.embedder_ok /\ out.qdrant_ok
  /\ out.candidates = <<>>
  /\ \E i \in 1..Len(points) : points[i].payload.user_id = out.user_id
  /\ out.result.confidence_score = 0

\* the points of the requesting user that reach the similarity threshold of
\* the last context request
AboveThreshold ==
  {i \in 1..Len(points) :
      /\ points[i].payload.user_id = out.user_id
      /\ Score(create_embedding(out.query), points[i].vector) * 10 >= 6 * UNIT}

\* C16: relevant_memories has at most max_memories elements and is the prefix
\* of the score-sorted enhanced list, so no omitted enhanced memory outranks a
\* returned one; total_memories_found is the number of candidates the index
\* returned, at most 2 x max_memories.
C16_TruncatedPrefix ==
  out.op = "context" =>
    LET returned == out.result.relevant_memories
    IN  /\ Len(returned) = Min(out.max_memories, Len(out.enhanced))
        /\ \A i \in 1..Len(returned) : returned[i] = out.enhanced[i]
        /\ \A i \in 1..Len(returned) :
              \A j \in (Len(returned) + 1)..Len(out.enhanced) :
                 IsEnhanced(out.enhanced[j]) =>
                    /\ IsEnhanced(returned[i])
                    /\ returned[i].enhanced_relevance >= out.enhanced[j].enhanced_relevance
        /\ out.result.total_memories_found = Len(out.candidates)
        /\ out.result.total_memories_found <= 2 * out.max_memories
        /\ (out.embedder_ok /\ out.qdrant_ok) =>
              out.result.total_memories_found
                 = Min(2 * out.max_memories, Cardinality(AboveThreshold))

\* three points reach the threshold, the index returns 2 x max_memories = 2
\* of them and the context carries one
C16_Witness ==
  /\ out.op = "context"
  /\ out.max_memories = 1
  /\ Cardinality(AboveThreshold) = 3
  /\ out.result.total_memories_found = 2
  /\ Len(out.result.relevant_memories) = 1
  /\ Len(out.enhanced) = 2

\* the store call that produced the i-th point: the stores of SpecRoundTrip
\* have distinct contents, so the point's vector tells the call
StoredBy(i) ==
  CHOOSE in \in RoundTripInputs : create_embedding(in.content) = points[i].vector

\* the point a hit was read from: message ids are given in store order
PointOf(hit) ==
  hit.message_id - 999

\* the value a payload key was stored with: the metadata's where it has the
\* key, else the argument (the first max_chars characters of the content)
StoredField(in, key, max_chars) ==
  IF key \in DOMAIN in.metadata THEN in.metadata[key]
  ELSE IF key = "content" THEN Some(SubSeq(in.content, 1, Min(max_chars, Len(in.content))))
  ELSE IF key = "timestamp" THEN None
  ELSE in[key]

\* every hit of the last search carries the payload its point was stored
\* with, the content up to max_chars characters
HitsAsStored(max_chars) ==
  \A n \in 1..Len(out.result) :
     LET hit == out.result[n]
         i   == PointOf(hit)
         in  == StoredBy(i)
     IN  /\ i \in 1..Len(points)
         /\ StoredField(in, "user_id", max_chars) = out.user_id
         /\ \A key \in {"session_id", "message_type", "content", "timestamp"} :
               hit[key] = StoredField(in, key, max_chars)
         /\ DOMAIN hit.metadata
               = (DOMAIN in.metadata \cup {"timestamp"})
                    \ {"message_id", "content", "message_type", "session_id", "user_id"}
         /\ \A key \in DOMAIN hit.metadata :
               hit.metadata[key] = StoredField(in, key, max_chars)

\* C17 (as amended): every hit of a search carries the payload its point was
\* stored with: session_id, message_type, content and timestamp are the
\* metadata's value where the metadata has that key and else the argument
\* (the timestamp None), the hit's metadata is the rest of the payload, and
\* the content is the first 500 characters of the stored content.
C17_RoundTripOfExcerpt ==
  out.op = "search" => HitsAsStored(500)

\* the 501-character message is retrieved, cut to 500 characters and with
\* its extra metadata key
C17_Witness ==
  /\ out.op = "search"
  /\ \E n \in 1..Len(out.result) :
        /\ StoredBy(PointOf(out.result[n])).content = T_long
        /\ Len(out.result[n].content[1]) = 500
        /\ out.result[n].metadata.source = "chat"

\* C17 as stated: the fields of a hit equal what was stored, for every
\* content length: the content comes back whole.
C17_Original ==
  out.op = "search" => HitsAsStored(Len(T_long))

\* C18: every stored message's session_id is the session_id of a stored
\* session, whichever store_conversation_message calls succeeded or raised.
C18_MessageHasSession ==
  \A i \in 1..Len(messages) :
     \E j \in 1..Len(sessions) : sessions[j].session_id = messages[i].session_id

\* a message was stored by a call that created its session; another call
\* created a session and raised before its message was stored; and a message
\* was stored under a session that another user's call had created
C18_Witness ==
  /\ \E i \in 1..Len(messages), j \in 1..Len(sessions) :
        /\ sessions[j].session_id = messages[i].session_id
        /\ sessions[j].started_at = messages[i].created_at
  /\ \E j \in 1..Len(sessions) :
        \A i \in 1..Len(messages) : messages[i].session_id # sessions[j].session_id
  /\ \E i \in 1..Len(messages), j \in 1..Len(sessions) :
        /\ sessions[j].session_id = messages[i].session_id
        /\ sessions[j].user_id # messages[i].user_id

\* the weighted sum of the five factors, clamped to [0, 1]
WeightedTotal(semantic, recency, frequency, topic_alignment, continuity) ==
  Max(0, Min(UNIT, (40 * semantic + 15 * recency + 10 * frequency
                    + 20 * topic_alignment + 15 * continuity) \div 100))

\* the factors and the total of an enhanced memory are the documented ones
ScoredAsDocumented(m) ==
  LET f       == m.relevance_factors
      recency == IF m.timestamp = None THEN 0
                 ELSE Max(0, UNIT - (Days(clock - fromisoformat(m.timestamp)) * UNIT) \div 30)
  IN  /\ f.semantic_similarity = m.similarity_score
      /\ f.frequency_score = 0
      /\ f.recency_score = recency
      /\ f.topic_alignment = calculate_topic_alignment(m.content, out.query)
      /\ f.context_continuity = calculate_context_continuity(m, out.user_id, out.db_ok)
      /\ f.total_score = WeightedTotal(f.semantic_similarity, recency, 0,
                                       f.topic_alignment, f.context_continuity)

\* C19: every candidate's total_score is the clamped weighted sum of its
\* factors, with frequency 0 and recency max(0, 1 - age_days/30); a candidate
\* without timestamp has recency 0 and the same weighted sum, its topic
\* alignment and continuity computed as for any other candidate.
C19_Original ==
  out.op = "context" =>
    \A i \in 1..Len(out.enhanced) :
       IsEnhanced(out.enhanced[i]) => ScoredAsDocumented(out.enhanced[i])

\* C20: each relevance factor reported for a candidate (semantic, recency,
\* frequency, topic alignment, continuity) lies in [0, 1], whatever the
\* candidate's timestamp, also one later than the current time.
C20_Original ==
  out.op = "context" =>
    \A i \in 1..Len(out.enhanced) :
       IsEnhanced(out.enhanced[i]) =>
          \A k \in {"semantic_similarity", "recency_score", "frequency_score",
                    "topic_alignment", "context_continuity"} :
             /\ out.enhanced[i].relevance_factors[k] >= 0
             /\ out.enhanced[i].relevance_factors[k] <= UNIT

\* C21: a text containing a keyword of any topic of the configured
\* eight-topic taxonomy (coffee ... market, quality) yields that topic.
C21_Original ==
  out.op = "topics" =>
    \A topic \in DOMAIN FARMING_TOPICS :
       AnyIn(FARMING_TOPICS[topic], Lower(out.text)) => topic \in Range(out.result)

\* the classification rules in their documented priority order, each with
\* the keyword set that triggers it
MemoryTypeRules ==
  << [memory_type |-> "question",          words |-> Range(question_words)],
     [memory_type |-> "problem_solving",   words |-> Range(problem_words)],
     [memory_type |-> "positive_feedback", words |-> Range(feedback_words)],
     [memory_type |-> "market_inquiry",    words |-> Range(market_words)],
     [memory_type |-> "farming_activity",  words |-> Range(activity_words)] >>

\* the rules a content matches
MatchingRules(text) ==
  {r \in 1..Len(MemoryTypeRules) : AnyIn(MemoryTypeRules[r].words, Lower(text))}

\* C22: the memory_type of a content is the earliest rule it matches in the
\* order question, problem_solving, positive_feedback, market_inquiry,
\* farming_activity, and general_conversation when it matches none.
C22_FirstMatchWins ==
  out.op = "classify" =>
    LET matching == MatchingRules(out.text)
    IN  IF matching = {} THEN out.result = "general_conversation"
        ELSE \E r \in matching :
                /\ \A other \in matching : r <= other
                /\ out.result = MemoryTypeRules[r].memory_type

\* a content that matches the feedback rule and the market rule, classified
\* as positive_feedback
C22_Witness ==
  /\ out.op = "classify"
  /\ MatchingRules(out.text) = {3, 4}
  /\ out.result = "positive_feedback"

\* the text has no whitespace at either end, no whitespace other than single
\* spaces between words
TrimmedAndCollapsed(text) ==
  /\ \A k \in 1..Len(text) : IsSpace(text[k]) => text[k] = " "
  /\ text # <<>> => ~IsSpace(text[1]) /\ ~IsSpace(text[Len(text)])
  /\ \A k \in 1..(Len(text) - 1) : ~(IsSpace(text[k]) /\ IsSpace(text[k + 1]))

\* C23: the text handed to the encoder is trimmed, has its whitespace runs
\* collapsed to one space, and is at most 2000 characters long, for every
\* input.
C23_Original ==
  (out.op = "embed" /\ ~out.raised) =>
     /\ TrimmedAndCollapsed(out.cleaned_text[1])
     /\ Len(out.cleaned_text[1]) <= MaxEmbedChars

\* the positions of the events of one kind in the event list of the context
\* request in progress
EventsAt(kinds) ==
  {n \in 1..Len(out.events) : out.events[n] \in kinds}

\* C24: one context request issues exactly one embedding call and at most
\* one vector-index query; the query follows a successful embedding and is
\* never issued after a failed one; enhancement starts only after the query
\* has returned (or was skipped because the embedding failed).
C24_OneEmbeddingThenQuery ==
  out.op = "context_steps" =>
    LET embeddings == EventsAt({"embed_ok", "embed_raised"})
        queries    == EventsAt({"query_ok", "query_raised"})
    IN  /\ Cardinality(embeddings) <= 1
        /\ out.pc # "search_embed" => Cardinality(embeddings) = 1
        /\ Cardinality(queries) <= 1
        /\ \A q \in queries : \E e \in EventsAt({"embed_ok"}) : e < q
        /\ EventsAt({"embed_raised"}) # {} => queries = {}
        /\ \A h \in EventsAt({"enhance"}) :
              \/ \E q \in queries : q < h
              \/ \E e \in EventsAt({"embed_raised"}) : e < h
        /\ out.pc = "done" => Cardinality(queries) = Cardinality(EventsAt({"embed_ok"}))

\* a request has run to its end with one embedding, one query that returned
\* a candidate, and the enhancement after them
C24_Witness ==
  /\ out.op = "context_steps" /\ out.pc = "done"
  /\ out.events = <<"embed_ok", "query_ok", "enhance">>
  /\ out.candidates # <<>>
  /\ out.result[1].relevant_memories # <<>>

MessagesOf(session_id) ==
  {i \in 1..Len(messages) : messages[i].session_id = session_id}

\* C26: each session's message_count is the number of messages stored in
\* it, and its last_activity is no older than any of them.
C26_Original ==
  \A j \in 1..Len(sessions) :
     /\ sessions[j].message_count = Cardinality(MessagesOf(sessions[j].session_id))
     /\ \A i \in MessagesOf(sessions[j].session_id) :
           sessions[j].last_activity >= messages[i].created_at

\* C27: the history read by the chat path is in chronological order and
\* holds the most recent 10 messages of the session: no message left out is
\* newer than a returned one, also when the session holds more than 10.
C27_Original ==
  (out.op = "history" /\ out.db_ok) =>
    LET returned == {out.result[n].id : n \in 1..Len(out.result)}
        omitted  == {i \in MessagesOf(out.session_id) : messages[i].id \notin returned}
    IN  /\ Len(out.result) = Min(HistoryLimit, Cardinality(MessagesOf(out.session_id)))
        /\ \A n \in 1..(Len(out.result) - 1) :
              out.result[n].created_at <= out.result[n + 1].created_at
        /\ \A i \in omitted : \A n \in 1..Len(out.result) :
              messages[i].created_at <= out.result[n].created_at

\* C28: after two concurrent store_conversation_message calls for one
\* session_id that did not exist, under any interleaving, neither call has
\* raised, exactly one session row has that session_id and both messages are
\* stored.
C28_Original ==
  (out.op = "concurrent_stores"
     /\ \A p \in Callers : out.call[p].pc = "done"
     /\ out.call[1].in.session_id = out.call[2].in.session_id) =>
       /\ \A p \in Callers : ~out.call[p].raised
       /\ Cardinality({j \in 1..Len(sessions) :
                          sessions[j].session_id = out.call[1].in.session_id}) = 1
       /\ \A p \in Callers :
             \E i \in MessagesOf(out.call[p].in.session_id) :
                messages[i].content = out.call[p].in.content

\* every memory and insight of the last context comes from a message of
\* the requesting user
FromOwnMessages ==
  /\ \A n \in 1..Len(out.result.relevant_memories) :
        \E i \in 1..Len(points) :
           /\ points[i].payload.message_id = out.result.relevant_memories[n].message_id
           /\ points[i].payload.user_id = out.user_id
           /\ \E k \in 1..Len(messages) :
                 /\ messages[k].id = points[i].payload.message_id
                 /\ messages[k].user_id = out.user_id
  /\ \A n \in 1..Len(out.result.memory_insights) :
        LET insight == out.result.memory_insights[n]
        IN  /\ insight.frequency = Cardinality(UserMentions(insight.topic))
            /\ \A s \in Range(insight.related_conversations) :
                  \E k \in UserMentions(insight.topic) : messages[k].session_id = s

\* the context recomputed for the same request over the store as it is now
SameContextNow ==
  out.result = get_intelligent_memory_context(out.query, out.user_id, out.max_memories,
                  out.include_insights,
                  [qdrant_ok |-> out.qdrant_ok, db_ok |-> out.db_ok,
                   failing |-> out.failing]).context

\* C29: the context of a user depends only on that user's messages and
\* vectors: no returned memory or insight comes from another user's message,
\* and whatever other users store after the context was computed, the same
\* request over the new store yields the same context.
C29_UserIsolation ==
  (out # Idle /\ out.op = "context") => (FromOwnMessages /\ SameContextNow)

\* a context with a memory and an insight, after which the other user has
\* stored a message with the content of a returned memory or a turn in its
\* session
C29_Witness ==
  /\ out.op = "context"
  /\ "others_stored" \in DOMAIN out
  /\ out.result.relevant_memories # <<>>
  /\ out.result.memory_insights # <<>>
  /\ \E k \in 1..Len(messages) :
        /\ messages[k].user_id # out.user_id
        /\ \E n \in 1..Len(out.result.relevant_memories) :
              \/ messages[k].content = out.result.relevant_memories[n].content[1]
              \/ messages[k].session_id = out.result.relevant_memories[n].session_id


(* ------------------ properties: unenhanced candidates ------------------- *)

\* the score the confidence takes of a memory: its total score, or the raw
\* similarity of a memory that came back unenhanced
CountedScore(m) ==
  IF IsEnhanced(m) THEN m.enhanced_relevance ELSE m.similarity_score

\* clamp01(avg(counted score) + min(0.2, 0.1 * count(counted score > 0.7)))
\* over a non-empty list of memories
ConfidenceCountingRaw(memories) ==
  LET total == Sum([i \in 1..Len(memories) |-> CountedScore(memories[i])])
      high  == Cardinality({i \in 1..Len(memories) :
                              CountedScore(memories[i]) * 10 > 7 * UNIT})
  IN  Min(UNIT, total \div Len(memories) + Min((2 * UNIT) \div 10, (high * UNIT) \div 10))

\* C30: a candidate returned unenhanced after a per-candidate failure sorts
\* with key 0: it stands after every enhanced candidate whatever its raw
\* similarity, while the confidence counts it with its raw similarity_score.
C30_UnenhancedLastCountedRaw ==
  (out.op = "context" /\ out.enhanced # <<>>) =>
     /\ \A i, j \in 1..Len(out.enhanced) :
           (~IsEnhanced(out.enhanced[i]) /\ IsEnhanced(out.enhanced[j])) => j < i
     /\ out.result.confidence_score = ConfidenceCountingRaw(out.enhanced)

\* an unenhanced candidate whose raw similarity exceeds the total score of an
\* enhanced one, given before it and returned after it, and a confidence
\* below the clamp, in which the raw score shows
C30_Witness ==
  /\ out.op = "context"
  /\ \E i, j \in 1..Len(out.enhanced) :
        /\ ~IsEnhanced(out.enhanced[i])
        /\ IsEnhanced(out.enhanced[j])
        /\ out.enhanced[i].similarity_score > out.enhanced[j].enhanced_relevance
        /\ InputIndex(out.enhanced[i]) < InputIndex(out.enhanced[j])
        /\ j < i
        /\ CountedScore(out.enhanced[i]) > 0
  /\ out.result.confidence_score < UNIT
====
